---- MODULE Spec2Model ----
(***************************************************************************)
(* Verification model of cookplanner's shopping-list engine                *)
(* (src/cookplanner/planning/shopping_list.py).                            *)
(*                                                                         *)
(* Strings that the code inspects (quantities, names, units, categories)   *)
(* are sequences of one-character strings, so that regular-expression      *)
(* matching, lower(), strip() and ordinal comparison are computed and not  *)
(* assumed.  Python floats are IEEE-754 doubles: they are modelled exactly *)
(* as mantissa * 2^exponent with a 53-bit mantissa kept in 15-bit limbs,   *)
(* with round-to-nearest-even after every operation.                       *)
(***************************************************************************)
EXTENDS Integers, Sequences, FiniteSets, TLC

----------------------------------------------------------------------------
(* Arbitrary-size naturals: little-endian sequences of limbs in 0..Base-1,  *)
(* no most-significant zero limb; zero is <<>>.                             *)

Base == 32768
LimbBits == 15
MantBits == 53
DivGuardLimbs == 5

RECURSIVE Pow2(_)
Pow2(n) == IF n = 0 THEN 1 ELSE 2 * Pow2(n - 1)

RECURSIVE Pow10(_)
Pow10(n) == IF n = 0 THEN 1 ELSE 10 * Pow10(n - 1)

Min(a, b) == IF a < b THEN a ELSE b

RECURSIVE BigNorm(_)
BigNorm(a) ==
    IF a = <<>> THEN <<>>
    ELSE IF a[Len(a)] = 0 THEN BigNorm(SubSeq(a, 1, Len(a) - 1))
    ELSE a

RECURSIVE BigFromInt(_)
BigFromInt(n) == IF n = 0 THEN <<>> ELSE <<n % Base>> \o BigFromInt(n \div Base)

RECURSIVE BigToInt(_)
BigToInt(a) == IF a = <<>> THEN 0 ELSE Head(a) + Base * BigToInt(Tail(a))

RECURSIVE BigAddC(_, _, _)
BigAddC(a, b, c) ==
    IF a = <<>> /\ b = <<>> THEN (IF c = 0 THEN <<>> ELSE <<c>>)
    ELSE LET x == IF a = <<>> THEN 0 ELSE Head(a)
             y == IF b = <<>> THEN 0 ELSE Head(b)
             s == x + y + c
         IN <<s % Base>> \o BigAddC(IF a = <<>> THEN <<>> ELSE Tail(a),
                                    IF b = <<>> THEN <<>> ELSE Tail(b),
                                    s \div Base)

BigAdd(a, b) == BigAddC(a, b, 0)

RECURSIVE BigMulSmallC(_, _, _)
BigMulSmallC(a, k, c) ==
    IF a = <<>> THEN (IF c = 0 THEN <<>> ELSE <<c>>)
    ELSE LET p == Head(a) * k + c
         IN <<p % Base>> \o BigMulSmallC(Tail(a), k, p \div Base)

BigMulSmall(a, k) == IF k = 0 THEN <<>> ELSE BigMulSmallC(a, k, 0)

RECURSIVE BigMul(_, _)
BigMul(a, b) ==
    IF a = <<>> \/ b = <<>> THEN <<>>
    ELSE BigNorm(BigAdd(BigMulSmall(a, Head(b)),
                        LET r == BigMul(a, Tail(b))
                        IN IF r = <<>> THEN <<>> ELSE <<0>> \o r))

(* a divided by a small d (1 <= d <= Base): quotient and remainder *)
RECURSIVE BigDivSmallRaw(_, _)
BigDivSmallRaw(a, d) ==
    IF a = <<>> THEN [q |-> <<>>, r |-> 0]
    ELSE LET hi == BigDivSmallRaw(Tail(a), d)
             t  == hi.r * Base + Head(a)
         IN [q |-> <<t \div d>> \o hi.q, r |-> t % d]

BigNormQuotient(x) == [q |-> BigNorm(x.q), r |-> x.r]

BigDivSmall(a, d) == BigNormQuotient(BigDivSmallRaw(a, d))

Zeros(n) == [i \in 1..n |-> 0]

BigShl(a, n) ==
    IF a = <<>> THEN <<>>
    ELSE Zeros(n \div LimbBits) \o BigMulSmall(a, Pow2(n % LimbBits))

BigShr(a, n) ==
    LET k == n \div LimbBits
    IN IF k >= Len(a) THEN <<>>
       ELSE BigDivSmall(SubSeq(a, k + 1, Len(a)), Pow2(n % LimbBits)).q

(* a mod 2^n *)
BigLowBits(a, n) ==
    LET k == n \div LimbBits
    IN IF k >= Len(a) THEN a
       ELSE BigNorm(SubSeq(a, 1, k) \o <<a[k + 1] % Pow2(n % LimbBits)>>)

RECURSIVE IntBitLen(_)
IntBitLen(n) == IF n = 0 THEN 0 ELSE 1 + IntBitLen(n \div 2)

BigBitLen(a) ==
    IF a = <<>> THEN 0 ELSE LimbBits * (Len(a) - 1) + IntBitLen(a[Len(a)])

(* -1, 0, 1 as a < b, a = b, a > b *)
RECURSIVE BigCmpFrom(_, _, _)
BigCmpFrom(a, b, i) ==
    IF i = 0 THEN 0
    ELSE IF a[i] < b[i] THEN -1
    ELSE IF a[i] > b[i] THEN 1
    ELSE BigCmpFrom(a, b, i - 1)

BigCmp(a, b) ==
    IF Len(a) < Len(b) THEN -1
    ELSE IF Len(a) > Len(b) THEN 1
    ELSE BigCmpFrom(a, b, Len(a))

BigIsOdd(a) == a # <<>> /\ a[1] % 2 = 1

----------------------------------------------------------------------------
(* Non-negative IEEE-754 doubles: [m, e] is m * 2^e, m < 2^53; canonical    *)
(* form has m odd (or m = <<>>, e = 0 for 0.0), so equal values are equal   *)
(* records.                                                                 *)

FZero == [m |-> <<>>, e |-> 0]

RECURSIVE FCanon(_, _)
FCanon(m, e) ==
    IF m = <<>> THEN FZero
    ELSE IF m[1] = 0 THEN FCanon(Tail(m), e + LimbBits)
    ELSE IF m[1] % 2 = 0 THEN FCanon(BigDivSmall(m, 2).q, e + 1)
    ELSE [m |-> m, e |-> e]

(* the quotient q of a division by 2 * half with remainder r (plus a        *)
(* positive amount below one when sticky), rounded to nearest, ties to even *)
RoundHalfEven(q, r, half, sticky) ==
    LET c == BigCmp(r, half)
    IN IF c > 0 \/ (c = 0 /\ (sticky \/ BigIsOdd(q))) THEN BigAdd(q, <<1>>) ELSE q

(* n / 2^sh rounded to nearest, ties to even, for sh >= 1 *)
BigShrRound(n, sh, sticky) ==
    RoundHalfEven(BigShr(n, sh), BigLowBits(n, sh), BigShl(<<1>>, sh - 1), sticky)

FRoundBits(n, e, sticky, bl) ==
    IF bl <= MantBits THEN FCanon(n, e)
    ELSE FCanon(BigShrRound(n, bl - MantBits, sticky), e + (bl - MantBits))

(* round n * 2^e (plus a positive amount below one unit of n when sticky)   *)
(* to the nearest double, ties to even                                      *)
FRound(n, e, sticky) == FRoundBits(n, e, sticky, BigBitLen(n))

FRoundQuotient(x, e) == FRound(x.q, e, x.r # 0)

(* the double nearest to a / d, for integers a >= 0 and 1 <= d <= Base *)
FDivInt(a, d) ==
    IF a = 0 THEN FZero
    ELSE FRoundQuotient(BigDivSmall(Zeros(DivGuardLimbs) \o BigFromInt(a), d),
                        0 - DivGuardLimbs * LimbBits)

FOne == [m |-> <<1>>, e |-> 0]

FMul(x, y) == FRound(BigMul(x.m, y.m), x.e + y.e, FALSE)

FAdd(x, y) ==
    IF x.m = <<>> THEN y
    ELSE IF y.m = <<>> THEN x
    ELSE LET e == Min(x.e, y.e)
         IN FRound(BigAdd(BigShl(x.m, x.e - e), BigShl(y.m, y.e - e)), e, FALSE)

(* scaled == int(scaled) *)
FIsWhole(x) == x.e >= 0

(* int(x): truncation *)
FToInt(x) ==
    IF x.e >= 0 THEN BigToInt(BigShl(x.m, x.e)) ELSE BigToInt(BigShr(x.m, 0 - x.e))

(* x rounded to a whole number of tenths, ties to even, as format(x, ".1f") *)
FTenths(x) ==
    IF x.e >= 0 THEN BigToInt(BigShl(BigMulSmall(x.m, 10), x.e))
    ELSE BigToInt(BigShrRound(BigMulSmall(x.m, 10), 0 - x.e, FALSE))

----------------------------------------------------------------------------
(* Text.  A str is a sequence of one-character strings.                     *)

Digits == <<"0", "1", "2", "3", "4", "5", "6", "7", "8", "9">>
Upper == <<"A", "B", "C", "D", "E", "F", "G", "H", "I", "J", "K", "L", "M",
           "N", "O", "P", "Q", "R", "S", "T", "U", "V", "W", "X", "Y", "Z">>
Lower == <<"a", "b", "c", "d", "e", "f", "g", "h", "i", "j", "k", "l", "m",
           "n", "o", "p", "q", "r", "s", "t", "u", "v", "w", "x", "y", "z">>

IndexIn(c, tbl) == IF \E i \in 1..Len(tbl) : tbl[i] = c
                   THEN CHOOSE i \in 1..Len(tbl) : tbl[i] = c
                   ELSE 0

IsDigit(c) == IndexIn(c, Digits) # 0
DigitVal(c) == IndexIn(c, Digits) - 1
IsSpace(c) == c \in {" ", "\n"}

(* ord(c) for the characters that occur in the model's strings *)
Ord(c) ==
    IF IndexIn(c, Digits) # 0 THEN 47 + IndexIn(c, Digits)
    ELSE IF IndexIn(c, Upper) # 0 THEN 64 + IndexIn(c, Upper)
    ELSE IF IndexIn(c, Lower) # 0 THEN 96 + IndexIn(c, Lower)
    ELSE IF c = " " THEN 32
    ELSE IF c = "(" THEN 40
    ELSE IF c = ")" THEN 41
    ELSE IF c = "." THEN 46
    ELSE IF c = "/" THEN 47
    ELSE 127

(* str.lower() *)
LowerChar(c) == IF IndexIn(c, Upper) # 0 THEN Lower[IndexIn(c, Upper)] ELSE c
StrLower(s) == [i \in 1..Len(s) |-> LowerChar(s[i])]

(* s < t for str: comparison by code point, a proper prefix is smaller *)
RECURSIVE StrLess(_, _)
StrLess(s, t) ==
    IF t = <<>> THEN FALSE
    ELSE IF s = <<>> THEN TRUE
    ELSE IF Ord(Head(s)) < Ord(Head(t)) THEN TRUE
    ELSE IF Ord(Head(s)) > Ord(Head(t)) THEN FALSE
    ELSE StrLess(Tail(s), Tail(t))

RECURSIVE LStrip(_)
LStrip(s) == IF s # <<>> /\ IsSpace(Head(s)) THEN LStrip(Tail(s)) ELSE s

RECURSIVE RStrip(_)
RStrip(s) == IF s # <<>> /\ IsSpace(s[Len(s)])
             THEN RStrip(SubSeq(s, 1, Len(s) - 1)) ELSE s

(* str.strip() *)
Strip(s) == RStrip(LStrip(s))

(* str(n) for an int n >= 0 *)
RECURSIVE IntToStr(_)
IntToStr(n) == IF n < 10 THEN <<Digits[n + 1]>>
               ELSE IntToStr(n \div 10) \o <<Digits[(n % 10) + 1]>>

(* the position of the n-th of the separators at positions at of a text of   *)
(* length len; 0 before the first, len + 1 after the last                   *)
NthSep(at, len, n) ==
    IF n = 0 THEN 0
    ELSE IF n > Cardinality(at) THEN len + 1
    ELSE CHOOSE i \in at : Cardinality({j \in at : j < i}) = n - 1

(* str.split(sep) for a one-character sep that stands at the positions at *)
StrSplit(s, at) ==
    [n \in 1..(Cardinality(at) + 1) |->
        SubSeq(s, NthSep(at, Len(s), n - 1) + 1, NthSep(at, Len(s), n) - 1)]

EndsWith(s, suf) ==
    Len(s) >= Len(suf) /\ SubSeq(s, Len(s) - Len(suf) + 1, Len(s)) = suf

----------------------------------------------------------------------------
(* Quantity parsing: float(str) and the regular expression of               *)
(* _scale_quantity and _sum_quantities.                                     *)

(* the exception a call ends with, in the place of its return value *)
ValueError == <<"ValueError">>

RECURSIVE DigitsToInt(_, _)
DigitsToInt(s, acc) ==
    IF s = <<>> THEN acc
    ELSE DigitsToInt(Tail(s), IF IsDigit(Head(s)) THEN 10 * acc + DigitVal(Head(s)) ELSE acc)

DotCount(s) == Cardinality({i \in 1..Len(s) : s[i] = "."})
DigitCount(s) == Cardinality({i \in 1..Len(s) : IsDigit(s[i])})

(* float(s): surrounding whitespace is ignored; of the literals float()     *)
(* accepts, the model's strings can only form digits with at most one       *)
(* point (no sign, exponent, underscore, inf or nan occurs in them).        *)
(* ok = FALSE is ValueError.                                                *)
ParseStripped(t) ==
    LET valid == /\ \A i \in 1..Len(t) : IsDigit(t[i]) \/ t[i] = "."
                 /\ DotCount(t) <= 1
                 /\ DigitCount(t) >= 1
        dot == IF DotCount(t) = 1 THEN CHOOSE i \in 1..Len(t) : t[i] = "." ELSE Len(t) + 1
        fracLen == IF DotCount(t) = 1 THEN Len(t) - dot ELSE 0
    IN IF valid
       THEN [ok |-> TRUE, val |-> FDivInt(DigitsToInt(t, 0), Pow10(fracLen))]
       ELSE [ok |-> FALSE, val |-> FZero]

ParseFloat(s) == ParseStripped(Strip(s))

RECURSIVE NumRunLen(_)
NumRunLen(s) ==
    IF s # <<>> /\ (IsDigit(Head(s)) \/ Head(s) = ".") THEN 1 + NumRunLen(Tail(s)) ELSE 0

(* re.match of the quantity pattern (digits-and-points run, whitespace,     *)
(* anything):                                                               *)
(* group 1 is the longest leading run of digits and points, the whitespace  *)
(* after it is skipped, group 2 is the rest                                 *)
ReMatch(s) ==
    LET n == NumRunLen(s)
    IN IF n = 0 THEN [ok |-> FALSE, g1 |-> <<>>, g2 |-> <<>>]
       ELSE [ok |-> TRUE, g1 |-> SubSeq(s, 1, n),
             g2 |-> LStrip(SubSeq(s, n + 1, Len(s)))]

(* str(int(x)) if x == int(x) else f"{x:.1f}" *)
TenthsToStr(t) == IntToStr(t \div 10) \o <<".">> \o <<Digits[(t % 10) + 1]>>

FormatNumber(x) ==
    IF FIsWhole(x) THEN IntToStr(FToInt(x)) ELSE TenthsToStr(FTenths(x))

(* the matched branch of the except block: qty is float(match.group(1)),    *)
(* unit_part the rest                                                       *)
ScaleWithUnit(qty, unit_part, scale_factor) ==
    IF ~qty.ok THEN ValueError
    ELSE Strip(FormatNumber(FMul(qty.val, scale_factor)) \o <<" ">> \o unit_part)

(* the except block of _scale_quantity *)
ScaleMatch(quantity, scale_factor, match) ==
    IF match.ok THEN ScaleWithUnit(ParseFloat(match.g1), match.g2, scale_factor)
    ELSE quantity

(* the try block of _scale_quantity, whole being float(quantity) *)
ScaleTry(quantity, scale_factor, whole) ==
    IF whole.ok THEN FormatNumber(FMul(whole.val, scale_factor))
    ELSE ScaleMatch(quantity, scale_factor, ReMatch(quantity))

(* the try / except of _scale_quantity *)
ScaleParsed(quantity, scale_factor) ==
    ScaleTry(quantity, scale_factor, ParseFloat(quantity))

(* _scale_quantity without the early return for a factor of 1.0 *)
ScaleQuantityNoEarlyReturn(quantity, scale_factor) ==
    IF quantity = <<>> THEN quantity ELSE ScaleParsed(quantity, scale_factor)

_scale_quantity(quantity, scale_factor) ==
    IF quantity = <<>> \/ scale_factor = FOne THEN quantity
    ELSE ScaleParsed(quantity, scale_factor)

MultipleRecipes == <<" ", "(", "m", "u", "l", "t", "i", "p", "l", "e", " ",
                     "r", "e", "c", "i", "p", "e", "s", ")">>

RECURSIVE SumLoop(_, _, _, _)

(* total += qty, or the except block when float() raised *)
SumAdd(items, i, total, unit_suffix, qty_str, qty) ==
    IF ~qty.ok THEN qty_str \o MultipleRecipes
    ELSE SumLoop(items, i + 1, FAdd(total, qty.val), unit_suffix)

(* the try block of the loop body, match being re.match on qty_str *)
SumMatch(items, i, total, unit_suffix, qty_str, match) ==
    SumAdd(items, i, total,
           IF unit_suffix = <<>> /\ match.ok /\ match.g2 # <<>>
           THEN match.g2 ELSE unit_suffix,
           qty_str,
           ParseFloat(IF match.ok THEN match.g1 ELSE qty_str))

(* the loop body after qty_str = self._scale_quantity(...) *)
SumLine(items, i, total, unit_suffix, qty_str) ==
    IF qty_str = ValueError THEN ValueError
    ELSE SumMatch(items, i, total, unit_suffix, qty_str, ReMatch(qty_str))

SumLoop(items, i, total, unit_suffix) ==
    IF i > Len(items)
    THEN FormatNumber(total)
         \o (IF unit_suffix # <<>> THEN <<" ">> \o unit_suffix ELSE <<>>)
    ELSE SumLine(items, i, total, unit_suffix,
                 _scale_quantity(items[i].quantity, items[i].scale_factor))

_sum_quantities(items) == SumLoop(items, 1, FZero, <<>>)

----------------------------------------------------------------------------
(* Ingredient consolidation and aggregation.                                *)

(* Python's None, where a str is optional *)
None == <<"None">>

(* a ValueError that ends a call which returns a list *)
Raised == <<[error |-> "ValueError"]>>

(* a key that leaves the unit out *)
GroupKeyNameOnly(ing) == <<StrLower(ing.name_en), <<>>>>

(* a key that keeps the letter case *)
GroupKeyCaseSensitive(ing) ==
    <<ing.name_en, IF ing.unit # None /\ ing.unit # <<>> THEN ing.unit ELSE <<>>>>

(* the key of by_name in _consolidate_ingredients *)
GroupKey(ing) ==
    <<StrLower(ing.name_en),
      IF ing.unit # None /\ ing.unit # <<>> THEN StrLower(ing.unit) ELSE <<>>>>

(* the distinct values of s, in order of first occurrence: the key order of *)
(* a dict filled while iterating s                                          *)
RECURSIVE FirstSeen(_, _)
FirstSeen(s, acc) ==
    IF s = <<>> THEN acc
    ELSE FirstSeen(Tail(s),
                   IF \E i \in 1..Len(acc) : acc[i] = Head(s)
                   THEN acc ELSE Append(acc, Head(s)))

(* stable sort of entries by name_en, as list.sort(key=...) *)
RECURSIVE InsertByName(_, _)
InsertByName(sorted, x) ==
    IF sorted = <<>> THEN <<x>>
    ELSE IF StrLess(x.name_en, Head(sorted).name_en) THEN <<x>> \o sorted
    ELSE <<Head(sorted)>> \o InsertByName(Tail(sorted), x)

(* consolidated left in the order of the keys of by_name *)
SortByNameSkipped(s, acc) == s

RECURSIVE SortByName(_, _)
SortByName(s, acc) ==
    IF s = <<>> THEN acc ELSE SortByName(Tail(s), InsertByName(acc, Head(s)))

(* a group whose recipes list is built from the last line to the first *)
ConsolidateGroupReversed(items) ==
    [name_en  |-> items[1].name_en,
     name_jp  |-> items[1].name_jp,
     quantity |-> IF Len(items) = 1
                  THEN _scale_quantity(items[1].quantity, items[1].scale_factor)
                  ELSE _sum_quantities(items),
     unit     |-> items[1].unit,
     recipes  |-> [i \in 1..Len(items) |-> items[Len(items) + 1 - i].recipe_title]]

ConsolidateGroup(items) ==
    IF Len(items) = 1
    THEN [name_en  |-> items[1].name_en,
          name_jp  |-> items[1].name_jp,
          quantity |-> _scale_quantity(items[1].quantity, items[1].scale_factor),
          unit     |-> items[1].unit,
          recipes  |-> <<items[1].recipe_title>>]
    ELSE [name_en  |-> items[1].name_en,
          name_jp  |-> items[1].name_jp,
          quantity |-> _sum_quantities(items),
          unit     |-> items[1].unit,
          recipes  |-> [i \in 1..Len(items) |-> items[i].recipe_title]]

(* a loop that keeps the first line of every group only *)
ConsolidateByNameFirstLine(ingredients, keys) ==
    [k \in 1..Len(keys) |->
        ConsolidateGroup(
            SubSeq(SelectSeq(ingredients, LAMBDA ing : GroupKey(ing) = keys[k]), 1, 1))]

(* the loop over by_name.items(), keys being the keys of by_name *)
ConsolidateByName(ingredients, keys) ==
    [k \in 1..Len(keys) |->
        ConsolidateGroup(SelectSeq(ingredients, LAMBDA ing : GroupKey(ing) = keys[k]))]

(* consolidated.sort(...), unless a quantity raised on the way *)
SortUnlessRaised(consolidated) ==
    IF \E k \in 1..Len(consolidated) : consolidated[k].quantity = ValueError
    THEN Raised
    ELSE SortByName(consolidated, <<>>)

_consolidate_ingredients(ingredients) ==
    SortUnlessRaised(
        ConsolidateByName(
            ingredients,
            FirstSeen([i \in 1..Len(ingredients) |-> GroupKey(ingredients[i])], <<>>)))

(* the category of an ingredient that has none *)
Other == <<"O", "t", "h", "e", "r">>

(* the entries of a recipe with the category of each ingredient as stored *)
RecipeEntriesNoDefault(recipe, scale_servings) ==
    [i \in 1..Len(recipe.ingredients) |->
        [category     |-> recipe.ingredients[i].category,
         name_en      |-> recipe.ingredients[i].name_en,
         name_jp      |-> recipe.ingredients[i].name_jp,
         quantity     |-> recipe.ingredients[i].quantity,
         unit         |-> recipe.ingredients[i].unit,
         scale_factor |-> IF recipe.id \in DOMAIN scale_servings
                          THEN FDivInt(scale_servings[recipe.id], recipe.servings)
                          ELSE FOne,
         recipe_title |-> recipe.title_en]]

(* the by_category entries a recipe contributes *)
RecipeEntries(recipe, scale_servings) ==
    LET scale_factor ==
            IF recipe.id \in DOMAIN scale_servings
            THEN FDivInt(scale_servings[recipe.id], recipe.servings)
            ELSE FOne
    IN [i \in 1..Len(recipe.ingredients) |->
           LET ing == recipe.ingredients[i]
           IN [category     |-> IF ing.category # None /\ ing.category # <<>>
                                THEN ing.category ELSE Other,
               name_en      |-> ing.name_en,
               name_jp      |-> ing.name_jp,
               quantity     |-> ing.quantity,
               unit         |-> ing.unit,
               scale_factor |-> scale_factor,
               recipe_title |-> recipe.title_en]]

(* a loop over the recipes that ends after the first recipe *)
AllEntriesFirstRecipeOnly(recipes, scale_servings) ==
    IF recipes = <<>> THEN <<>> ELSE RecipeEntries(Head(recipes), scale_servings)

(* the entries appended to by_category, in the order of the loops *)
RECURSIVE AllEntries(_, _)
AllEntries(recipes, scale_servings) ==
    IF recipes = <<>> THEN <<>>
    ELSE RecipeEntries(Head(recipes), scale_servings)
         \o AllEntries(Tail(recipes), scale_servings)

(* the dict category -> consolidated list, as the sequence of its items in  *)
(* insertion order                                                          *)
(* the loop over by_category.items(), cats being the keys of by_category *)
ConsolidateByCategory(entries, cats) ==
    [k \in 1..Len(cats) |->
        [category |-> cats[k],
         items    |-> _consolidate_ingredients(
                          SelectSeq(entries, LAMBDA e : e.category = cats[k]))]]

(* the consolidated dict, unless a category raised on the way *)
ReturnUnlessRaised(consolidated) ==
    IF \E k \in 1..Len(consolidated) : consolidated[k].items = Raised
    THEN Raised
    ELSE consolidated

(* lines 104-109, entries being what the loops put into by_category *)
ConsolidateEntries(entries) ==
    ReturnUnlessRaised(
        ConsolidateByCategory(
            entries, FirstSeen([i \in 1..Len(entries) |-> entries[i].category], <<>>)))

_aggregate_ingredients(recipes, scale_servings) ==
    ConsolidateEntries(AllEntries(recipes, scale_servings))

----------------------------------------------------------------------------
(* The values the model draws its inputs from.                              *)

MaxTarget == 5
MaxServings == 3
MaxItems == 3
MaxIds == 2

Q_200 == <<"2", "0", "0">>
Q_3 == <<"3">>
Q_2_5 == <<"2", ".", "5">>
Q_4_2 == <<"4", ".", "2">>
Q_half == <<"1", "/", "2">>
Q_to_taste == <<"t", "o", " ", "t", "a", "s", "t", "e">>
Q_3_tbsp == <<"3", " ", "t", "b", "s", "p">>
Q_1_2_3 == <<"1", ".", "2", ".", "3">>
Q_dot == <<".">>
Q_0_5 == <<"0", ".", "5">>
Q_2 == <<"2">>
Q_1 == <<"1">>
Q_0_6 == <<"0", ".", "6">>
Q_0_7 == <<"0", ".", "7">>
Q_pinch == <<"p", "i", "n", "c", "h">>
Q_2_cups == <<"2", " ", "c", "u", "p", "s">>
N_Egg == <<"E", "g", "g">>
N_egg == <<"e", "g", "g">>
N_eggs == <<"e", "g", "g", "s">>
N_Soy_sauce == <<"S", "o", "y", " ", "s", "a", "u", "c", "e">>
N_Salt == <<"S", "a", "l", "t">>
N_Flour == <<"F", "l", "o", "u", "r">>
U_tbsp == <<"t", "b", "s", "p">>
U_Tbsp == <<"T", "b", "s", "p">>
U_cup == <<"c", "u", "p">>
U_g == <<"g">>
C_dairy == <<"d", "a", "i", "r", "y">>
C_pantry == <<"p", "a", "n", "t", "r", "y">>
C_meat == <<"m", "e", "a", "t">>
R_text == <<"E", "g", "g", "s">>
C_condiments == <<"c", "o", "n", "d", "i", "m", "e", "n", "t", "s">>

(* quantity strings as the extraction prompt describes them ("200", "1/2")  *)
(* and as free text                                                         *)
Quantities ==
    {<<>>, Q_200, Q_3, Q_2_5, Q_4_2, Q_0_5, Q_half, Q_to_taste, Q_3_tbsp, Q_1_2_3,
     Q_dot}

Item(quantity, target, servings) ==
    [quantity |-> quantity, scale_factor |-> FDivInt(target, servings)]

(* the lines one by_name group may hold: quantity and scale factor *)
SumItems ==
    {Item(Q_2, 1, 1), Item(Q_1, 1, 1), Item(Q_0_6, 1, 1), Item(Q_0_7, 1, 1),
     Item(Q_pinch, 1, 1), Item(Q_to_taste, 1, 1), Item(Q_half, 1, 1),
     Item(Q_3_tbsp, 2, 1), Item(Q_2_cups, 1, 1), Item(Q_1_2_3, 2, 1),
     Item(<<>>, 1, 1)}

SeqsUpTo(S, lo, hi) == UNION {[1..n -> S] : n \in lo..hi}

Ingredient(name_en, unit, quantity, category, name_jp) ==
    [name_en |-> name_en, name_jp |-> name_jp, quantity |-> quantity,
     unit |-> unit, category |-> category]

(* the recipes table with its ingredients, as get_recipe returns them *)
StoredRecipes ==
    {[id |-> 1, title_en |-> "A", servings |-> 2,
      ingredients |-> <<Ingredient(N_Egg, <<>>, Q_2, C_dairy, "tamago"),
                        Ingredient(N_Soy_sauce, U_tbsp, Q_2, C_pantry, "shoyu"),
                        Ingredient(N_Salt, <<>>, Q_to_taste, None, "shio"),
                        Ingredient(N_Flour, U_g, Q_pinch, C_pantry, "komugiko")>>],
     [id |-> 2, title_en |-> "B", servings |-> 4,
      ingredients |-> <<Ingredient(N_egg, <<>>, Q_1, C_dairy, "tamago"),
                        Ingredient(N_Soy_sauce, U_Tbsp, Q_1, C_pantry, "shoyu"),
                        Ingredient(N_Salt, <<>>, Q_pinch, Other, "shio"),
                        Ingredient(N_eggs, <<>>, Q_3, C_dairy, "tamago")>>],
     [id |-> 3, title_en |-> "C", servings |-> 3,
      ingredients |-> <<Ingredient(N_Soy_sauce, U_tbsp, Q_half, C_condiments, "shoyu"),
                        Ingredient(N_Soy_sauce, U_cup, Q_1, C_pantry, "shoyu"),
                        Ingredient(N_Flour, U_g, Q_1_2_3, C_pantry, "komugiko"),
                        Ingredient(N_Flour, U_g, Q_0_5, C_pantry, "komugiko")>>],
     [id |-> 4, title_en |-> "D", servings |-> 2, ingredients |-> <<>>]}

(* ids a caller may pass: the stored ones and one that is not stored *)
RecipeIds == {1, 2, 3, 4, 9}

(* the scale_servings a caller may pass: none, a target for one id, stored  *)
(* or not, or targets for two recipes; a target may be below, equal to or   *)
(* above the recipe's servings                                              *)
OverrideIds == {{}, {1}, {2}, {3}, {4}, {9}, {1, 3}}
OverrideTargets == {1, 3, 4}
Overrides == UNION {[ids -> OverrideTargets] : ids \in OverrideIds}

----------------------------------------------------------------------------
(* State.                                                                   *)

VARIABLES
    pc,               \* which call is pending, "done" after it returned
    quantity,         \* _scale_quantity: argument
    target_servings,  \* the servings scale_factor is computed from (line 86)
    servings,
    scale_factor,     \* _scale_quantity: argument
    scaled,           \* _scale_quantity: return value
    items,            \* _sum_quantities: argument
    total_quantity,   \* _sum_quantities: return value
    db,               \* the stored recipes
    recipe_ids,       \* generate_from_recipe_ids: argument
    scale_servings,   \* generate_from_recipe_ids: argument ({} or None: no key)
    shopping_list,    \* generate_from_recipe_ids: ShoppingList.items
    categories,       \* get_categories: return value
    category,         \* get_items_by_category: argument
    category_items,   \* get_items_by_category: return value
    list_text,        \* consolidate_with_llm: the list as put into the prompt
    response,         \* consolidate_with_llm: what the external call does
    consolidated,     \* consolidate_with_llm: return value
    calls,            \* concurrent _aggregate_ingredients calls: their locals
    recipe_rows,      \* the rows of table recipes, row k having id k
    image_stem,       \* extract_from_image: image_path.stem
    expect_multiple,  \* extract_from_image: argument
    extracted,        \* the number of recipes the extractor returns
    extract_result,   \* extract_from_image: return value
    extract_runs,     \* the calls of extract_from_image so far
    plans_generated,  \* st.session_state: the options on offer, <<>> for None
    request_id,       \* st.session_state: the saved request, 0 for None
    selected_option_index,  \* st.session_state: -1 for None
    chosen_plan,      \* st.session_state: NoPlan for None
    session_shopping_list,  \* st.session_state.shopping_list: the plan the
                      \* stored text was consolidated for, NoPlan for None
    raw_shopping_list,  \* st.session_state: likewise for the raw text
    last_request_id,  \* the highest id of table dinner_plan_requests
    drive_files,      \* the files gdrive.list_files() returns, in its order
    sync_files,       \* table sync_files: drive_file_id -> row, or NoRecord
    local_files,      \* the ids of the files present in images_dir
    sync_result,      \* sync_all: whether listing worked, the stats it
                      \* returned, the line it printed for every file and
                      \* what the download and extraction of the file did
    sync_runs,        \* the calls of sync_all so far
    response_text,    \* _parse_dinner_plan_response: argument
    available,        \* _parse_dinner_plan_response: argument recipes
    dinner_plan,      \* _parse_dinner_plan_response: return value
    stored_rows,      \* the committed rows of recipes, ingredients and
                      \* instructions, what every other connection reads
    tx_rows,          \* the rows as the connection of insert_recipe sees them
    insert_call,      \* insert_recipe: its argument, position and locals
    insert_runs       \* the calls of insert_recipe so far

viewVars == <<categories, category, category_items, list_text, response,
              consolidated>>

extractVars == <<recipe_rows, image_stem, expect_multiple, extracted,
                 extract_result, extract_runs>>

uiVars == <<plans_generated, request_id, selected_option_index, chosen_plan,
            session_shopping_list, raw_shopping_list, last_request_id>>

syncVars == <<drive_files, sync_files, local_files, sync_result, sync_runs>>

parseVars == <<response_text, available, dinner_plan>>

insertVars == <<stored_rows, tx_rows, insert_call, insert_runs>>

sideVars == <<extractVars, uiVars, syncVars, parseVars, insertVars>>

restVars == <<pc, quantity, target_servings, servings, scale_factor, scaled,
              items, total_quantity, db, recipe_ids, scale_servings,
              shopping_list, viewVars>>

(* what a call of extract_from_image leaves alone *)
outsideExtract == <<restVars, calls, uiVars, syncVars, parseVars, insertVars>>

(* what the handlers of the web UI leave alone *)
outsideUi == <<restVars, calls, extractVars, syncVars, parseVars, insertVars>>

(* what sync_all and the Drive folder leave alone *)
outsideSync == <<restVars, calls, extractVars, uiVars, parseVars, insertVars>>

(* what _parse_dinner_plan_response leaves alone *)
outsideParse == <<restVars, calls, extractVars, uiVars, syncVars, insertVars>>

(* what insert_recipe leaves alone *)
outsideInsert == <<restVars, calls, extractVars, uiVars, syncVars, parseVars>>

vars == <<pc, quantity, target_servings, servings, scale_factor, scaled, items,
          total_quantity, db, recipe_ids, scale_servings, shopping_list,
          viewVars, calls, sideVars>>

NoValue == <<"NoValue">>
NoList == <<[error |-> "NoValue"]>>

(* get_recipe returns a row of recipes with that id, or None *)
Stored(recipe_id) == \E r \in db : r.id = recipe_id
get_recipe(recipe_id) == CHOOSE r \in db : r.id = recipe_id

(* a loader that gives up the whole list when one id is not stored *)
LoadRecipesStrict(ids) ==
    IF \E i \in 1..Len(ids) : ~Stored(ids[i]) THEN <<>>
    ELSE [i \in 1..Len(ids) |-> get_recipe(ids[i])]

RECURSIVE LoadRecipes(_)
LoadRecipes(ids) ==
    IF ids = <<>> THEN <<>>
    ELSE (IF Stored(Head(ids)) THEN <<get_recipe(Head(ids))>> ELSE <<>>)
         \o LoadRecipes(Tail(ids))

(* generate_from_recipe_ids where no recipe found is an error *)
GenerateEmptyRaises(ids, overrides) ==
    IF LoadRecipes(ids) = <<>> THEN Raised
    ELSE _aggregate_ingredients(LoadRecipes(ids), overrides)

generate_from_recipe_ids(ids, overrides) ==
    LET recipes == LoadRecipes(ids)
    IN IF recipes = <<>> THEN <<>>
       ELSE _aggregate_ingredients(recipes, overrides)

(* sorted() of a list of str *)
RECURSIVE InsertStr(_, _)
InsertStr(sorted, x) ==
    IF sorted = <<>> THEN <<x>>
    ELSE IF StrLess(x, Head(sorted)) THEN <<x>> \o sorted
    ELSE <<Head(sorted)>> \o InsertStr(Tail(sorted), x)

RECURSIVE SortStrs(_, _)
SortStrs(s, acc) ==
    IF s = <<>> THEN acc ELSE SortStrs(Tail(s), InsertStr(acc, Head(s)))

(* the keys of self.items as the dict holds them *)
GetCategoriesUnsorted(structure) ==
    [k \in 1..Len(structure) |-> structure[k].category]

(* ShoppingList.get_categories: sorted(self.items.keys()) *)
get_categories(structure) ==
    SortStrs([k \in 1..Len(structure) |-> structure[k].category], <<>>)

(* a lookup self.items[category], which raises for an absent key *)
GetItemsByCategoryStrict(structure, cat) ==
    IF \E k \in 1..Len(structure) : structure[k].category = cat
    THEN structure[CHOOSE k \in 1..Len(structure) : structure[k].category = cat].items
    ELSE <<[error |-> "KeyError"]>>

(* ShoppingList.get_items_by_category: self.items.get(category, []) *)
get_items_by_category(structure, cat) ==
    IF \E k \in 1..Len(structure) : structure[k].category = cat
    THEN structure[CHOOSE k \in 1..Len(structure) : structure[k].category = cat].items
    ELSE <<>>

(* "\n".join(lines) *)
RECURSIVE JoinLines(_)
JoinLines(lines) ==
    IF lines = <<>> THEN <<>>
    ELSE IF Len(lines) = 1 THEN Head(lines)
    ELSE Head(lines) \o <<"\n">> \o JoinLines(Tail(lines))

UsedIn == <<" ", "(", "u", "s", "e", "d", " ", "i", "n", " ">>
RecipesClose == <<" ", "r", "e", "c", "i", "p", "e", "s", ")">>
Bullet == <<" ", " ", "U+2022", " ">>

(* a line that carries the recipe count of every item *)
ItemLineAlwaysCounted(item) ==
    Bullet \o Strip(item.quantity \o <<" ">> \o item.unit) \o <<" ">> \o item.name_en
    \o UsedIn \o IntToStr(Len(item.recipes)) \o RecipesClose

(* the line of one item in _format_shopping_list_for_llm; the bullet is    *)
(* the one character U+2022                                                 *)
ItemLine(item) ==
    Bullet \o Strip(item.quantity \o <<" ">> \o item.unit) \o <<" ">> \o item.name_en
    \o (IF Len(item.recipes) > 1
        THEN UsedIn \o IntToStr(Len(item.recipes)) \o RecipesClose
        ELSE <<>>)

(* the lines of the categories cats[k..], each a header and its items *)
RECURSIVE CategoryLines(_, _, _)
CategoryLines(structure, cats, k) ==
    IF k > Len(cats) THEN <<>>
    ELSE <<(<<"\n">> \o cats[k] \o <<":">>)>>
         \o [i \in 1..Len(get_items_by_category(structure, cats[k])) |->
                ItemLine(get_items_by_category(structure, cats[k])[i])]
         \o CategoryLines(structure, cats, k + 1)

_format_shopping_list_for_llm(structure) ==
    JoinLines(CategoryLines(structure, get_categories(structure), 1))

(* the exception of a failed external call, in the place of the return value *)
ApiError == <<"ApiError">>

(* a call that catches the exception of the client and returns no text *)
ConsolidateWithLlmSilent(structure, resp) ==
    IF resp.ok THEN resp.text ELSE <<>>

(* consolidate_with_llm: response.text, or the exception of the client *)
consolidate_with_llm(structure, resp) ==
    IF resp.ok THEN resp.text ELSE ApiError

ViewUnused ==
    /\ categories = <<>> /\ category = <<>> /\ category_items = <<>>
    /\ list_text = <<>> /\ response = [ok |-> TRUE, text |-> <<>>]
    /\ consolidated = NoValue
CallsUnused == calls = <<>>
ExtractUnused ==
    /\ recipe_rows = <<>> /\ image_stem = <<>> /\ expect_multiple = TRUE
    /\ extracted = 0 /\ extract_result = NoValue /\ extract_runs = 0
(* a plan is known by the request it was generated for and its option index *)
NoPlan == [request_id |-> 0, option |-> 0]
UiUnused ==
    /\ plans_generated = <<>> /\ request_id = 0 /\ selected_option_index = -1
    /\ chosen_plan = NoPlan /\ session_shopping_list = NoPlan
    /\ raw_shopping_list = NoPlan /\ last_request_id = 0
ZeroStats == [new |-> 0, updated |-> 0, skipped |-> 0, errors |-> 0, pages_extracted |-> 0]
NotListed == [listed |-> FALSE, stats |-> ZeroStats, printed |-> <<>>, outcomes |-> <<>>]
SyncUnused ==
    /\ drive_files = <<>> /\ sync_files = <<>> /\ local_files = {}
    /\ sync_result = NotListed
    /\ sync_runs = 0
NoRows == [recipes |-> {}, ingredients |-> {}, instructions |-> {}]
NoCall == [pc |-> "idle", ingredients |-> 0, instructions |-> 0, recipe_id |-> 0,
           done |-> 0, conn |-> "none", result |-> 0, before |-> NoRows]
(* no DinnerPlan yet *)
NoDinnerPlan == [returned |-> FALSE, dinners |-> <<>>, reasoning |-> <<>>]
ParseUnused ==
    /\ response_text = <<>> /\ available = <<>> /\ dinner_plan = NoDinnerPlan
InsertUnused ==
    /\ stored_rows = NoRows /\ tx_rows = NoRows /\ insert_call = NoCall
    /\ insert_runs = 0
SideUnused == ExtractUnused /\ UiUnused /\ SyncUnused /\ ParseUnused /\ InsertUnused

ScaleUnused ==
    /\ quantity = <<>> /\ target_servings = 1 /\ servings = 1
    /\ scale_factor = FOne /\ scaled = NoValue
SumUnused == items = <<>> /\ total_quantity = NoValue
GenerateUnused ==
    /\ db = StoredRecipes /\ recipe_ids = <<>>
    /\ scale_servings = <<>> /\ shopping_list = NoList

InitScale ==
    /\ pc = "scale"
    /\ quantity \in Quantities
    /\ target_servings \in 1..MaxTarget
    /\ servings \in 1..MaxServings
    /\ scale_factor = FDivInt(target_servings, servings)
    /\ scaled = NoValue
    /\ SumUnused /\ GenerateUnused /\ ViewUnused /\ CallsUnused /\ SideUnused

InitSum ==
    /\ pc = "sum"
    /\ items \in SeqsUpTo(SumItems, 2, MaxItems)
    /\ total_quantity = NoValue
    /\ ScaleUnused /\ GenerateUnused /\ ViewUnused /\ CallsUnused /\ SideUnused

Init ==
    /\ pc = "generate"
    /\ db = StoredRecipes
    /\ recipe_ids \in SeqsUpTo(RecipeIds, 0, MaxIds)
    /\ scale_servings \in Overrides
    /\ shopping_list = NoList
    /\ ScaleUnused /\ SumUnused /\ ViewUnused /\ CallsUnused /\ SideUnused

ScaleQuantity ==
    /\ pc = "scale"
    /\ scaled' = _scale_quantity(quantity, scale_factor)
    /\ pc' = "done"
    /\ UNCHANGED <<quantity, target_servings, servings, scale_factor, items,
                   total_quantity, db, recipe_ids, scale_servings, shopping_list,
                   viewVars, calls, sideVars>>

SumQuantities ==
    /\ pc = "sum"
    /\ total_quantity' = _sum_quantities(items)
    /\ pc' = "done"
    /\ UNCHANGED <<quantity, target_servings, servings, scale_factor, scaled,
                   items, db, recipe_ids, scale_servings, shopping_list,
                   viewVars, calls, sideVars>>

GenerateFromRecipeIds ==
    /\ pc = "generate"
    /\ shopping_list' = generate_from_recipe_ids(recipe_ids, scale_servings)
    /\ pc' = "done"
    /\ UNCHANGED <<quantity, target_servings, servings, scale_factor, scaled,
                   items, total_quantity, db, recipe_ids, scale_servings,
                   viewVars, calls, sideVars>>

(* the category names a caller may ask for: present ones, one that no       *)
(* recipe uses, and the empty name                                          *)
CategoryArgs == {C_dairy, C_pantry, C_condiments, Other, C_meat, <<>>}

(* the external service answers with a text, or the call fails *)
Responses == {[ok |-> TRUE, text |-> R_text], [ok |-> FALSE, text |-> <<>>]}

(* a ShoppingList was returned and none of its methods called yet *)
HasList == pc = "done" /\ shopping_list # Raised

GetCategories ==
    /\ HasList
    /\ categories' = get_categories(shopping_list)
    /\ pc' = "categories"
    /\ UNCHANGED <<quantity, target_servings, servings, scale_factor, scaled,
                   items, total_quantity, db, recipe_ids, scale_servings,
                   shopping_list, category, category_items, list_text, response,
                   consolidated, calls, sideVars>>

GetItemsByCategory ==
    /\ HasList
    /\ \E cat \in CategoryArgs :
          /\ category' = cat
          /\ category_items' = get_items_by_category(shopping_list, cat)
    /\ pc' = "items"
    /\ UNCHANGED <<quantity, target_servings, servings, scale_factor, scaled,
                   items, total_quantity, db, recipe_ids, scale_servings,
                   shopping_list, categories, list_text, response, consolidated,
                   calls, sideVars>>

ConsolidateWithLlm ==
    /\ HasList
    /\ list_text' = _format_shopping_list_for_llm(shopping_list)
    /\ \E resp \in Responses :
          /\ response' = resp
          /\ consolidated' = consolidate_with_llm(shopping_list, resp)
    /\ pc' = "consolidated"
    /\ UNCHANGED <<quantity, target_servings, servings, scale_factor, scaled,
                   items, total_quantity, db, recipe_ids, scale_servings,
                   shopping_list, categories, category, category_items, calls, sideVars>>

Next ==
    \/ GenerateFromRecipeIds
    \/ GetCategories
    \/ GetItemsByCategory
    \/ ConsolidateWithLlm

----------------------------------------------------------------------------
(* Two calls of _aggregate_ingredients in flight at once.  calls[p] holds   *)
(* the arguments and the locals of call p: recipes and scale_servings, the  *)
(* position of the two loops (recipe idx, j of its ingredients appended),   *)
(* by_category with its entries in the order they were appended, and the    *)
(* returned dict.                                                           *)

Callers == {1, 2}

(* the arguments of a call: its own list of recipes, loaded for these ids,  *)
(* and its scale_servings                                                   *)
CallArgs ==
    [recipe_ids : {<<1>>, <<2, 1>>, <<3>>, <<4, 2>>},
     scale_servings : {<<>>, (2 :> 3), (3 :> 1)}]

NewCall(args) ==
    [recipes |-> LoadRecipes(args.recipe_ids), scale_servings |-> args.scale_servings,
     pc |-> "start", idx |-> 0, j |-> 0, by_category |-> <<>>, result |-> NoList]

(* every call writes the by_category of the one object the two calls share *)
FrameShared(p) == 1

(* by_category is a local of the call: the call's own frame holds it *)
Frame(p) == p

InitConcurrent ==
    /\ pc = "concurrent"
    /\ GenerateUnused
    /\ calls \in {[p \in Callers |-> NewCall(args[p])] : args \in [Callers -> CallArgs]}
    /\ ScaleUnused /\ SumUnused /\ ViewUnused /\ SideUnused

(* line 79: by_category = defaultdict(list) *)
Begin(p) ==
    /\ calls[p].pc = "start"
    /\ calls' = [calls EXCEPT ![Frame(p)].by_category = <<>>,
                              ![p].idx = 1, ![p].j = 0, ![p].pc = "recipes"]
    /\ UNCHANGED <<restVars, sideVars>>

(* lines 88-102: one turn of the loop over recipe.ingredients *)
AppendEntry(p) ==
    /\ calls[p].pc = "recipes"
    /\ calls[p].idx <= Len(calls[p].recipes)
    /\ calls[p].j < Len(calls[p].recipes[calls[p].idx].ingredients)
    /\ calls' = [calls EXCEPT
                   ![Frame(p)].by_category =
                       Append(@, RecipeEntries(calls[p].recipes[calls[p].idx],
                                               calls[p].scale_servings)[calls[p].j + 1]),
                   ![p].j = @ + 1]
    /\ UNCHANGED <<restVars, sideVars>>

(* line 81: the loop over recipes moves on when the ingredients are used up *)
NextRecipe(p) ==
    /\ calls[p].pc = "recipes"
    /\ calls[p].idx <= Len(calls[p].recipes)
    /\ calls[p].j = Len(calls[p].recipes[calls[p].idx].ingredients)
    /\ calls' = [calls EXCEPT ![p].idx = @ + 1, ![p].j = 0]
    /\ UNCHANGED <<restVars, sideVars>>

(* lines 104-109: consolidate what by_category holds and return *)
Consolidate(p) ==
    /\ calls[p].pc = "recipes"
    /\ calls[p].idx > Len(calls[p].recipes)
    /\ calls' = [calls EXCEPT
                   ![p].result = ConsolidateEntries(calls[Frame(p)].by_category),
                   ![p].pc = "done"]
    /\ UNCHANGED <<restVars, sideVars>>

NextConcurrent ==
    \E p \in Callers :
       \/ Begin(p)
       \/ AppendEntry(p)
       \/ NextRecipe(p)
       \/ Consolidate(p)

Spec == Init /\ [][Next]_vars
SpecConcurrent == InitConcurrent /\ [][NextConcurrent]_vars

----------------------------------------------------------------------------
(* RecipeExtractor.extract_from_image with save_to_db=True: the recipes the *)
(* extractor returns for an image are stored as rows of table recipes.      *)

MaxExtract == 3

(* image_path.stem of the images, and their suffix *)
Stems == {<<"s", "c", "a", "n">>,
          <<"b", "k", "_", "p", "a", "g", "e", "_", "0", "0", "1">>,
          <<"b", "k", "_", "p", "a", "g", "e", "_", "0", "0", "0">>,
          <<"b", "k", "_", "p", "a", "g", "e", "_", "x">>,
          <<"a", "_", "p", "a", "g", "e", "_", "x", "_", "p", "a", "g", "e", "_", "2">>,
          <<"b", "k", "_", "p", "a", "g", "e">>}
Suffix == <<".", "j", "p", "g">>
OtherFile == <<"b", "k", "_", "p", "a", "g", "e", "_", "0", "0", "1", ".", "p", "n", "g">>

(* an Optional[int]: None, or the int n *)
NoInt == [none |-> TRUE, value |-> 0]
SomeInt(n) == [none |-> FALSE, value |-> n]

(* int(text) succeeds: blanks around an optional sign and decimal digits *)
IsIntText(text) ==
    LET t == Strip(text)
        digits == IF t # <<>> /\ Head(t) \in {"+", "-"} THEN Tail(t) ELSE t
    IN digits # <<>> /\ \A i \in 1..Len(digits) : IsDigit(digits[i])

IntOfText(text) ==
    IF Head(Strip(text)) = "-" THEN 0 - DigitsToInt(text, 0) ELSE DigitsToInt(text, 0)

(* the part after the first "page" part that int() accepts, or None *)
PageNumberIn(parts) ==
    LET hits == {i \in 1..(Len(parts) - 1) :
                   parts[i] = <<"p", "a", "g", "e">> /\ IsIntText(parts[i + 1])}
    IN IF hits = {} THEN NoInt
       ELSE SomeInt(IntOfText(parts[(CHOOSE i \in hits : \A j \in hits : i <= j) + 1]))

_extract_page_number(stem) ==
    PageNumberIn(StrSplit(stem, {i \in 1..Len(stem) : stem[i] = "_"}))

(* the three SELECT COUNT queries of check_already_extracted over the rows *)
check_already_extracted(rows, source_file, page_number, recipe_index) ==
    IF page_number # NoInt /\ recipe_index # NoInt
    THEN \E k \in 1..Len(rows) : /\ rows[k].source_file = source_file
                                  /\ rows[k].page_number = page_number
                                  /\ SomeInt(rows[k].recipe_index) = recipe_index
    ELSE IF page_number # NoInt
    THEN \E k \in 1..Len(rows) : /\ rows[k].source_file = source_file
                                  /\ rows[k].page_number = page_number
    ELSE \E k \in 1..Len(rows) : rows[k].source_file = source_file

(* lines 72-100: the loop over the recipes from index i on, rows being the  *)
(* table and ids the recipe_ids so far; the id of a new row is its position *)
RECURSIVE SaveRecipes(_, _, _, _, _, _)
SaveRecipes(rows, ids, source_file, page_number, i, n) ==
    IF i >= n THEN [rows |-> rows, ids |-> ids]
    ELSE IF check_already_extracted(rows, source_file, page_number, SomeInt(i))
    THEN SaveRecipes(rows, ids, source_file, page_number, i + 1, n)
    ELSE SaveRecipes(Append(rows, [source_file |-> source_file,
                                   page_number |-> page_number,
                                   recipe_index |-> i]),
                     Append(ids, Len(rows) + 1), source_file, page_number, i + 1, n)

(* lines 102-106: the list of ids, or the first id or None for one recipe *)
ExtractReturn(multiple, ids) ==
    IF multiple THEN ids ELSE IF ids # <<>> THEN SomeInt(ids[1]) ELSE NoInt

InitExtract ==
    /\ pc = "extract"
    /\ recipe_rows \in {<<>>, <<[source_file |-> OtherFile, page_number |-> SomeInt(1),
                                 recipe_index |-> 0]>>}
    /\ image_stem \in Stems
    /\ expect_multiple \in BOOLEAN
    /\ extracted \in (IF expect_multiple THEN 0..MaxExtract ELSE {1})
    /\ extract_result = NoValue
    /\ extract_runs = 0
    /\ ScaleUnused /\ SumUnused /\ GenerateUnused /\ ViewUnused /\ CallsUnused
    /\ UiUnused /\ SyncUnused /\ ParseUnused /\ InsertUnused

(* one call of extract_from_image; the second call gets the same result of  *)
(* the extractor                                                            *)
ExtractFromImage ==
    /\ pc = "extract"
    /\ extract_runs < 2
    /\ \E saved \in {SaveRecipes(recipe_rows, <<>>, image_stem \o Suffix,
                                  _extract_page_number(image_stem), 0, extracted)} :
          /\ recipe_rows' = saved.rows
          /\ extract_result' = ExtractReturn(expect_multiple, saved.ids)
    /\ extract_runs' = extract_runs + 1
    /\ UNCHANGED <<outsideExtract, image_stem, expect_multiple, extracted>>

SpecExtract == InitExtract /\ [][ExtractFromImage]_vars

----------------------------------------------------------------------------
(* The session of the web UI (ui/app.py): the buttons of main and what they *)
(* do to st.session_state.                                                  *)

MaxRequests == 2
MaxOptions == 3

(* what generate_meal_plans or generate_shopping_list does: it returns, or  *)
(* one of its calls raises                                                  *)
GenerateOutcomes == {"ok", "error"}
SelectOutcomes == {"ok", "update_chosen_option raises", "generate_from_recipe_ids raises",
                   "consolidate_with_llm raises"}

InitUi ==
    /\ pc = "ui"
    /\ UiUnused
    /\ ScaleUnused /\ SumUnused /\ GenerateUnused /\ ViewUnused /\ CallsUnused
    /\ ExtractUnused /\ SyncUnused /\ ParseUnused /\ InsertUnused

(* "Generate Meal Plans!": reset_session(), then generate_meal_plans; the   *)
(* rerun after a success shows the radio button with index 0                *)
GenerateMealPlans ==
    /\ pc = "ui"
    /\ last_request_id < MaxRequests
    /\ chosen_plan' = NoPlan
    /\ session_shopping_list' = NoPlan
    /\ raw_shopping_list' = NoPlan
    /\ \E outcome \in GenerateOutcomes, num_options \in 1..MaxOptions :
          IF outcome = "ok"
          THEN /\ last_request_id' = last_request_id + 1
               /\ request_id' = last_request_id + 1
               /\ plans_generated' = [i \in 1..num_options |->
                                        [request_id |-> last_request_id + 1, option |-> i]]
               /\ selected_option_index' = 0
          ELSE /\ plans_generated' = <<>> /\ request_id' = 0
               /\ selected_option_index' = -1
               /\ UNCHANGED last_request_id
    /\ UNCHANGED outsideUi

(* the radio button "Choose your plan:" *)
ChooseOption ==
    /\ pc = "ui"
    /\ plans_generated # <<>>
    /\ \E i \in 0..(Len(plans_generated) - 1) : selected_option_index' = i
    /\ UNCHANGED <<plans_generated, request_id, chosen_plan, session_shopping_list,
                   raw_shopping_list, last_request_id, outsideUi>>

(* "Select This Plan" for the plan on the radio button: what shopping_list  *)
(* and raw_shopping_list hold afterwards (lines 437-443 and 144-161)        *)
AfterSelect(outcome, plan) ==
    [shopping_list |-> IF outcome = "ok" THEN plan ELSE session_shopping_list,
     raw_shopping_list |-> IF outcome \in {"ok", "consolidate_with_llm raises"}
                           THEN plan ELSE raw_shopping_list]

SelectThisPlan ==
    /\ pc = "ui"
    /\ plans_generated # <<>>
    /\ chosen_plan' = plans_generated[selected_option_index + 1]
    /\ \E outcome \in SelectOutcomes :
          /\ session_shopping_list'
                = AfterSelect(outcome, plans_generated[selected_option_index + 1]).shopping_list
          /\ raw_shopping_list'
                = AfterSelect(outcome, plans_generated[selected_option_index + 1]).raw_shopping_list
    /\ UNCHANGED <<plans_generated, request_id, selected_option_index,
                   last_request_id, outsideUi>>

(* "Start Over": reset_session() *)
StartOver ==
    /\ pc = "ui"
    /\ plans_generated # <<>> \/ chosen_plan # NoPlan
    /\ plans_generated' = <<>> /\ request_id' = 0 /\ selected_option_index' = -1
    /\ chosen_plan' = NoPlan /\ session_shopping_list' = NoPlan
    /\ raw_shopping_list' = NoPlan
    /\ UNCHANGED <<last_request_id, outsideUi>>

NextUi == GenerateMealPlans \/ ChooseOption \/ SelectThisPlan \/ StartOver

SpecUi == InitUi /\ [][NextUi]_vars

----------------------------------------------------------------------------
(* FileSyncer.sync_all (sync/file_sync.py): the files of the Drive folder   *)
(* are downloaded, PDFs are split into pages, and table sync_files records  *)
(* what happened to every file.                                             *)

MaxModified == 2
MaxSyncs == 2
FileIds == {1, 2}

(* mimeType and the end of the name of the files of the folder *)
DriveKinds == {[mimeType |-> "application/pdf", ext |-> ".pdf"],
               [mimeType |-> "image/jpeg", ext |-> ".jpg"],
               [mimeType |-> "application/octet-stream", ext |-> ".PDF"],
               [mimeType |-> "text/plain", ext |-> ".txt"]}

(* str.lower() of the end of a name *)
LowerExt(ext) == IF ext = ".PDF" THEN ".pdf" ELSE ext

is_supported_file_type(kind) ==
    \/ kind.mimeType \in {"application/pdf", "image/jpeg", "image/jpg", "image/png"}
    \/ LowerExt(kind.ext) \in {".pdf", ".jpg", ".jpeg", ".png"}

get_file_type(kind) ==
    IF kind.mimeType = "application/pdf" \/ LowerExt(kind.ext) = ".pdf" THEN "pdf"
    ELSE IF kind.mimeType = "image/jpeg" \/ LowerExt(kind.ext) \in {".jpg", ".jpeg"}
    THEN "jpeg"
    ELSE IF kind.mimeType = "image/png" \/ LowerExt(kind.ext) = ".png" THEN "png"
    ELSE "unknown"

(* what the download and the page extraction of a file do; a PDF has two    *)
(* pages                                                                    *)
SyncOutcomes == {"ok", "download fails", "extraction fails"}

NoRecord == [exists |-> FALSE, last_modified |-> 0, sync_status |-> "",
             file_type |-> "", error_message |-> ""]

SyncFile(last_modified, sync_status, file_type, error_message) ==
    [exists |-> TRUE, last_modified |-> last_modified, sync_status |-> sync_status,
     file_type |-> file_type, error_message |-> error_message]

(* a check that skips the file only when its last sync worked *)
UnchangedAndSynced(existing, modified_time) ==
    existing.exists /\ existing.last_modified = modified_time
    /\ existing.sync_status = "synced"

(* lines 77-80: a file is skipped however its last sync ended *)
Unchanged(existing, modified_time) ==
    existing.exists /\ existing.last_modified = modified_time

(* a _sync_pdf that leaves the PDF in images_dir when extraction fails *)
SyncFileKeepsPdf(file_info, file_type, outcome, was_local) ==
    IF outcome = "download fails" \/ (file_type = "pdf" /\ outcome = "extraction fails")
    THEN [raised |-> TRUE, success |-> FALSE, pages_extracted |-> 0,
          record |-> SyncFile(file_info.modifiedTime, "error", file_type, "Failed"),
          local |-> was_local \/ outcome # "download fails"]
    ELSE [raised |-> FALSE, success |-> TRUE,
          pages_extracted |-> IF file_type = "pdf" THEN 2 ELSE 1,
          record |-> SyncFile(file_info.modifiedTime, "synced", file_type, ""),
          local |-> TRUE]

(* _sync_file with _sync_pdf and _sync_image: whether it raised, its result *)
(* when it did not, the row it upserted and whether the file is in          *)
(* images_dir afterwards                                                    *)
_sync_file(file_info, file_type, outcome, was_local) ==
    IF outcome = "download fails"
    THEN [raised |-> TRUE, success |-> FALSE, pages_extracted |-> 0,
          record |-> SyncFile(file_info.modifiedTime, "error", file_type,
                              IF file_type = "pdf" THEN "Failed to download PDF"
                              ELSE "Failed to download image"),
          local |-> was_local]
    ELSE IF file_type = "pdf" /\ outcome = "extraction fails"
    THEN [raised |-> TRUE, success |-> FALSE, pages_extracted |-> 0,
          record |-> SyncFile(file_info.modifiedTime, "error", file_type,
                              "Failed to extract PDF pages"),
          local |-> FALSE]
    ELSE [raised |-> FALSE, success |-> TRUE,
          pages_extracted |-> IF file_type = "pdf" THEN 2 ELSE 1,
          record |-> SyncFile(file_info.modifiedTime, "synced", file_type, ""),
          local |-> TRUE]

(* a count that leaves out the files that were skipped *)
CountButSkipped(stats, key, pages) ==
    IF key = "skipped" THEN stats
    ELSE [stats EXCEPT ![key] = @ + 1, !.pages_extracted = @ + pages]

(* stats[key] += 1 and stats["pages_extracted"] += pages *)
Count(stats, key, pages) ==
    [stats EXCEPT ![key] = @ + 1, !.pages_extracted = @ + pages]

(* lines 86-100 for one file: the state of the loop after the file *)
AfterSync(acc, file_info, existing, synced) ==
    [stats   |-> Count(acc.stats,
                       IF synced.raised \/ ~synced.success THEN "errors"
                       ELSE IF existing.exists THEN "updated" ELSE "new",
                       synced.pages_extracted),
     table   |-> [acc.table EXCEPT ![file_info.id] = synced.record],
     local   |-> IF synced.local THEN acc.local \cup {file_info.id}
                 ELSE acc.local \ {file_info.id},
     printed |-> Append(acc.printed,
                        [id |-> file_info.id,
                         line |-> IF synced.raised \/ ~synced.success
                                  THEN "Error syncing" ELSE "Synced"])]

(* lines 62-100: the loop over the listed files from the k-th on *)
RECURSIVE SyncLoop(_, _, _, _)
SyncLoop(files, outcomes, k, acc) ==
    IF k > Len(files) THEN acc
    ELSE IF ~is_supported_file_type(files[k].kind)
    THEN SyncLoop(files, outcomes, k + 1,
                  [acc EXCEPT !.stats = Count(@, "skipped", 0),
                              !.printed = Append(@, [id |-> files[k].id,
                                                     line |-> "Skipping unsupported file"])])
    ELSE IF Unchanged(acc.table[files[k].id], files[k].modifiedTime)
    THEN SyncLoop(files, outcomes, k + 1,
                  [acc EXCEPT !.stats = Count(@, "skipped", 0),
                              !.printed = Append(@, [id |-> files[k].id,
                                                     line |-> "Skipping unchanged file"])])
    ELSE SyncLoop(files, outcomes, k + 1,
                  AfterSync(acc, files[k], acc.table[files[k].id],
                            _sync_file(files[k], get_file_type(files[k].kind),
                                       outcomes[k], files[k].id \in acc.local)))

(* the Drive folders: file k has id k *)
DriveFolders ==
    UNION {[1..n -> [id : FileIds, kind : DriveKinds, modifiedTime : {1}]] : n \in 0..2}

InitSync ==
    /\ pc = "sync"
    /\ drive_files \in {d \in DriveFolders : \A k \in 1..Len(d) : d[k].id = k}
    /\ sync_files = [id \in FileIds |-> NoRecord]
    /\ local_files = {}
    /\ sync_result = NotListed
    /\ sync_runs = 0
    /\ ScaleUnused /\ SumUnused /\ GenerateUnused /\ ViewUnused /\ CallsUnused
    /\ ExtractUnused /\ UiUnused /\ ParseUnused /\ InsertUnused

(* sync_all when gdrive.list_files() raises *)
SyncAllListingFails ==
    /\ pc = "sync"
    /\ sync_runs < MaxSyncs
    /\ sync_result' = NotListed
    /\ sync_runs' = sync_runs + 1
    /\ UNCHANGED <<drive_files, sync_files, local_files, outsideSync>>

(* sync_all over the listed files, every download and extraction ending as  *)
(* outcomes says                                                            *)
SyncAll ==
    /\ pc = "sync"
    /\ sync_runs < MaxSyncs
    /\ \E outcomes \in [1..Len(drive_files) -> SyncOutcomes] :
       \E done \in {SyncLoop(drive_files, outcomes, 1,
                              [stats |-> ZeroStats, table |-> sync_files,
                               local |-> local_files, printed |-> <<>>])} :
          /\ sync_files' = done.table
          /\ local_files' = done.local
          /\ sync_result' = [listed |-> TRUE, stats |-> done.stats,
                             printed |-> done.printed, outcomes |-> outcomes]
    /\ sync_runs' = sync_runs + 1
    /\ UNCHANGED <<drive_files, outsideSync>>

(* somebody changes a file of the folder: Drive gives it a later modifiedTime *)
ModifyOnDrive ==
    /\ pc = "sync"
    /\ \E k \in 1..Len(drive_files) :
          /\ drive_files[k].modifiedTime < MaxModified
          /\ drive_files' = [drive_files EXCEPT ![k].modifiedTime = @ + 1]
    /\ UNCHANGED <<sync_files, local_files, sync_result, sync_runs, outsideSync>>

NextSync == SyncAllListingFails \/ SyncAll \/ ModifyOnDrive

SpecSync == InitSync /\ [][NextSync]_vars
SpecScale == InitScale /\ [][ScaleQuantity]_vars
SpecSum == InitSum /\ [][SumQuantities]_vars

----------------------------------------------------------------------------
(* MealPlanner._parse_dinner_plan_response (planning/meal_planner.py): the  *)
(* text the model answered is read line by line into a DinnerPlan.          *)

MaxLines == 3

(* str.upper() *)
UpperChar(c) == IF IndexIn(c, Lower) # 0 THEN Upper[IndexIn(c, Lower)] ELSE c
StrUpper(s) == [i \in 1..Len(s) |-> UpperChar(s[i])]

(* str.startswith(pre) *)
StartsWith(s, pre) == Len(s) >= Len(pre) /\ SubSeq(s, 1, Len(pre)) = pre

(* what (\d+) takes at position from: the digits up to the first other      *)
(* character                                                                *)
DigitRun(text, from) ==
    LET stops == {j \in from..Len(text) : ~IsDigit(text[j])}
    IN SubSeq(text, from, IF stops = {} THEN Len(text)
                          ELSE (CHOOSE j \in stops : \A i \in stops : j <= i) - 1)

(* re.search of the words pre and (\d+) with re.IGNORECASE: the number at   *)
(* the first place where pre stands before a digit, or None                 *)
SearchId(text, pre) ==
    LET hits == {i \in 1..(Len(text) - Len(pre)) :
                   /\ StrLower(SubSeq(text, i, i + Len(pre) - 1)) = pre
                   /\ IsDigit(text[i + Len(pre)])}
    IN IF hits = {} THEN NoInt
       ELSE SomeInt(DigitsToInt(DigitRun(text,
                (CHOOSE i \in hits : \A j \in hits : i <= j) + Len(pre)), 0))

(* re.search of ^(\d+)\s*[-:] *)
LeadingId(text) ==
    IF DigitRun(text, 1) # <<>>
       /\ LStrip(SubSeq(text, Len(DigitRun(text, 1)) + 1, Len(text))) # <<>>
       /\ Head(LStrip(SubSeq(text, Len(DigitRun(text, 1)) + 1, Len(text)))) \in {"-", ":"}
    THEN SomeInt(DigitsToInt(DigitRun(text, 1), 0))
    ELSE NoInt

(* the first of the three patterns that matches decides *)
_extract_recipe_id(text) ==
    IF SearchId(text, <<"r", "e", "c", "i", "p", "e", " ", "i", "d", " ">>) # NoInt
    THEN SearchId(text, <<"r", "e", "c", "i", "p", "e", " ", "i", "d", " ">>)
    ELSE IF SearchId(text, <<"i", "d", " ">>) # NoInt
    THEN SearchId(text, <<"i", "d", " ">>)
    ELSE LeadingId(text)

(* recipe_lookup: recipe_id in recipe_lookup, and recipe_lookup[recipe_id], *)
(* the last recipe of the list with that id                                 *)
InLookup(recipes, id) == \E k \in 1..Len(recipes) : recipes[k].id = id
Lookup(recipes, id) ==
    recipes[CHOOSE k \in 1..Len(recipes) :
               /\ recipes[k].id = id
               /\ \A j \in 1..Len(recipes) : recipes[j].id = id => j <= k]

(* line.split(":", 1) of a line with a colon *)
FirstColon(line) ==
    CHOOSE i \in 1..Len(line) : line[i] = ":" /\ \A j \in 1..(i - 1) : line[j] # ":"
DayLabel(line) == Strip(SubSeq(line, 1, FirstColon(line) - 1))
RecipeText(line) == Strip(SubSeq(line, FirstColon(line) + 1, Len(line)))

(* lines 297-298 *)
IsDinnerLine(line) ==
    /\ StartsWith(StrLower(line), <<"d", "a", "y", " ">>)
    /\ \E i \in 1..Len(line) : line[i] = ":"

(* lines 299-315: what a dinner line appends to dinners *)
DinnersOfLine(line, recipes) ==
    IF /\ _extract_recipe_id(RecipeText(line)) # NoInt
       /\ _extract_recipe_id(RecipeText(line)).value # 0
       /\ InLookup(recipes, _extract_recipe_id(RecipeText(line)).value)
    THEN <<[day |-> DayLabel(line),
            recipe_id |-> _extract_recipe_id(RecipeText(line)).value,
            recipe_title |->
                Lookup(recipes, _extract_recipe_id(RecipeText(line)).value).title_en]>>
    ELSE <<>>

(* a parser that never enters the reasoning section *)
IsReasoningHeaderNever(line) == FALSE

(* lines 288-290 *)
IsReasoningHeader(line) ==
    StartsWith(StrUpper(line), <<"R", "E", "A", "S", "O", "N", "I", "N", "G", ":">>)

(* lines 282-315: the loop over the lines from the k-th on *)
RECURSIVE ParseLines(_, _, _, _, _, _)
ParseLines(lines, k, recipes, dinners, reasoning, in_reasoning) ==
    IF k > Len(lines) THEN [dinners |-> dinners, reasoning |-> Strip(reasoning)]
    ELSE IF Strip(lines[k]) = <<>>
    THEN ParseLines(lines, k + 1, recipes, dinners, reasoning, in_reasoning)
    ELSE IF IsReasoningHeader(Strip(lines[k]))
    THEN ParseLines(lines, k + 1, recipes, dinners, reasoning, TRUE)
    ELSE IF in_reasoning
    THEN ParseLines(lines, k + 1, recipes, dinners,
                    reasoning \o Strip(lines[k]) \o <<"\n">>, TRUE)
    ELSE IF IsDinnerLine(Strip(lines[k]))
    THEN ParseLines(lines, k + 1, recipes,
                    dinners \o DinnersOfLine(Strip(lines[k]), recipes), reasoning, FALSE)
    ELSE ParseLines(lines, k + 1, recipes, dinners, reasoning, FALSE)

(* response_text.strip().split("\n") *)
ResponseLines(text) ==
    StrSplit(Strip(text), {i \in 1..Len(Strip(text)) : Strip(text)[i] = "\n"})

_parse_dinner_plan_response(text, recipes) ==
    ParseLines(ResponseLines(text), 1, recipes, <<>>, <<>>, FALSE)

(* the lines a response is made of *)
LinePool ==
    {<<"D", "a", "y", " ", "1", ":", " ", "R", "e", "c", "i", "p", "e", " ", "I", "D", " ", "1", " ", "-", " ", "N", "a", "b", "e">>,
     <<" ", "d", "a", "y", " ", "2", ":", " ", "i", "d", " ", "2", " ">>,
     <<"D", "a", "y", " ", "3", " ", ":", " ", "3", ":", " ", "U", "d", "o", "n">>,
     <<"D", "a", "y", " ", "4", ":", " ", "R", "e", "c", "i", "p", "e", " ", "I", "D", " ", "1", "2">>,
     <<"D", "a", "y", " ", "5", ":", " ", "R", "e", "s", "t">>,
     <<"D", "a", "y", " ", "6", ":", " ", "I", "D", " ", "1", " ", "R", "e", "c", "i", "p", "e", " ", "I", "D", " ", "2">>,
     <<"M", "o", "n", "d", "a", "y", ":", " ", "I", "D", " ", "1">>,
     <<"R", "e", "a", "s", "o", "n", "i", "n", "g", ":", " ", "o", "k">>,
     <<>>}

(* the recipes of the database as get_all_recipes returns them *)
AvailableRecipes ==
    {<<>>,
     <<[id |-> 2, title_en |-> <<"C", "u", "r", "r", "y">>]>>,
     <<[id |-> 1, title_en |-> <<"S", "o", "u", "p">>],
       [id |-> 2, title_en |-> <<"C", "u", "r", "r", "y">>],
       [id |-> 3, title_en |-> <<"U", "d", "o", "n">>]>>}

ResponseTexts ==
    {JoinLines(ls) : ls \in {s \in UNION {[1..n -> LinePool] : n \in 0..MaxLines} :
                                \A i, j \in 1..Len(s) : i # j => s[i] # s[j]}}

InitParse ==
    /\ pc = "parse"
    /\ response_text \in ResponseTexts
    /\ available \in AvailableRecipes
    /\ dinner_plan = NoDinnerPlan
    /\ ScaleUnused /\ SumUnused /\ GenerateUnused /\ ViewUnused /\ CallsUnused
    /\ ExtractUnused /\ UiUnused /\ SyncUnused /\ InsertUnused

ParseDinnerPlanResponse ==
    /\ pc = "parse"
    /\ ~dinner_plan.returned
    /\ \E plan \in {_parse_dinner_plan_response(response_text, available)} :
          dinner_plan' = [returned |-> TRUE, dinners |-> plan.dinners,
                          reasoning |-> plan.reasoning]
    /\ UNCHANGED <<response_text, available, outsideParse>>

SpecParse == InitParse /\ [][ParseDinnerPlanResponse]_vars

----------------------------------------------------------------------------
(* insert_recipe (models/orm.py) inside Database.get_connection             *)
(* (models/db.py): the statements of one call, one at a time.  stored_rows  *)
(* is the database as committed, tx_rows the rows the connection of the     *)
(* call works on.                                                           *)

MaxInserts == 2
MaxIngredients == 2
MaxInstructions == 2

(* cursor.lastrowid after the INSERT into recipes: AUTOINCREMENT gives the  *)
(* id after the largest one of the table                                    *)
LastRowId(rows) ==
    IF rows.recipes = {} THEN 1
    ELSE (CHOOSE i \in rows.recipes : \A j \in rows.recipes : j <= i) + 1

(* cursor.execute of an INSERT: the row is in the table for this connection *)
Execute(rows, table, row) == [rows EXCEPT ![table] = @ \cup {row}]

(* conn.commit(): what the connection did becomes the database *)
Commit(stored, tx) == tx

(* an exit that keeps what was executed before the statement that failed *)
RollbackKeepsRows(stored, tx) == tx

(* conn.rollback() and conn.close() of a connection with uncommitted rows:  *)
(* the database stays as committed                                          *)
Rollback(stored, tx) == stored

(* where the call goes after the statement at pc, done rows being written   *)
(* by the loop it is in                                                     *)
AfterStatement(call, at, done) ==
    IF at = "recipe" /\ call.ingredients > 0 THEN [pc |-> "ingredients", done |-> 0]
    ELSE IF at = "recipe" /\ call.instructions > 0 THEN [pc |-> "instructions", done |-> 0]
    ELSE IF at = "recipe" THEN [pc |-> "commit", done |-> 0]
    ELSE IF at = "ingredients" /\ done < call.ingredients
    THEN [pc |-> "ingredients", done |-> done]
    ELSE IF at = "ingredients" /\ call.instructions > 0
    THEN [pc |-> "instructions", done |-> 0]
    ELSE IF at = "instructions" /\ done < call.instructions
    THEN [pc |-> "instructions", done |-> done]
    ELSE [pc |-> "commit", done |-> 0]

InitInsert ==
    /\ pc = "insert"
    /\ InsertUnused
    /\ ScaleUnused /\ SumUnused /\ GenerateUnused /\ ViewUnused /\ CallsUnused
    /\ ExtractUnused /\ UiUnused /\ SyncUnused /\ ParseUnused

(* insert_recipe is called: get_db() and sqlite3.connect (db.py line 32) *)
CallInsertRecipe ==
    /\ pc = "insert"
    /\ insert_call.pc \in {"idle", "returned", "raised"}
    /\ insert_runs < MaxInserts
    /\ \E n \in 0..MaxIngredients, i \in 0..MaxInstructions :
          insert_call' = [pc |-> "recipe", ingredients |-> n, instructions |-> i,
                          recipe_id |-> 0, done |-> 0, conn |-> "open",
                          result |-> 0, before |-> stored_rows]
    /\ tx_rows' = stored_rows
    /\ insert_runs' = insert_runs + 1
    /\ UNCHANGED <<stored_rows, outsideInsert>>

(* lines 47-66: INSERT INTO recipes, recipe_id = cursor.lastrowid *)
InsertRecipeRow ==
    /\ pc = "insert"
    /\ insert_call.pc = "recipe"
    /\ tx_rows' = Execute(tx_rows, "recipes", LastRowId(tx_rows))
    /\ insert_call' = [insert_call EXCEPT
                          !.recipe_id = LastRowId(tx_rows),
                          !.pc = AfterStatement(insert_call, "recipe", 0).pc]
    /\ UNCHANGED <<stored_rows, insert_runs, outsideInsert>>

(* lines 69-85: one INSERT INTO ingredients of the loop *)
InsertIngredientRow ==
    /\ pc = "insert"
    /\ insert_call.pc = "ingredients"
    /\ tx_rows' = Execute(tx_rows, "ingredients",
                          <<insert_call.recipe_id, insert_call.done + 1>>)
    /\ insert_call' = [insert_call EXCEPT
          !.done = AfterStatement(insert_call, "ingredients", insert_call.done + 1).done,
          !.pc = AfterStatement(insert_call, "ingredients", insert_call.done + 1).pc]
    /\ UNCHANGED <<stored_rows, insert_runs, outsideInsert>>

(* lines 88-97: one INSERT INTO instructions of the loop *)
InsertInstructionRow ==
    /\ pc = "insert"
    /\ insert_call.pc = "instructions"
    /\ tx_rows' = Execute(tx_rows, "instructions",
                          <<insert_call.recipe_id, insert_call.done + 1>>)
    /\ insert_call' = [insert_call EXCEPT
          !.done = AfterStatement(insert_call, "instructions", insert_call.done + 1).done,
          !.pc = AfterStatement(insert_call, "instructions", insert_call.done + 1).pc]
    /\ UNCHANGED <<stored_rows, insert_runs, outsideInsert>>

(* line 100: conn.commit() *)
CommitInsert ==
    /\ pc = "insert"
    /\ insert_call.pc = "commit"
    /\ stored_rows' = Commit(stored_rows, tx_rows)
    /\ insert_call' = [insert_call EXCEPT !.pc = "exit"]
    /\ UNCHANGED <<tx_rows, insert_runs, outsideInsert>>

(* the with block ends: conn.commit() and conn.close() of get_connection    *)
(* (db.py lines 36 and 41), then return recipe_id (line 102)                *)
ReturnRecipeId ==
    /\ pc = "insert"
    /\ insert_call.pc = "exit"
    /\ stored_rows' = Commit(stored_rows, tx_rows)
    /\ insert_call' = [insert_call EXCEPT !.pc = "returned", !.conn = "closed",
                                          !.result = insert_call.recipe_id]
    /\ UNCHANGED <<tx_rows, insert_runs, outsideInsert>>

(* the statement the call is at raises: conn.rollback(), raise and          *)
(* conn.close() of get_connection (db.py lines 37-41); result -1 stands for *)
(* the exception                                                            *)
StatementFails ==
    /\ pc = "insert"
    /\ insert_call.pc \in {"recipe", "ingredients", "instructions", "commit"}
    /\ stored_rows' = Rollback(stored_rows, tx_rows)
    /\ tx_rows' = Rollback(stored_rows, tx_rows)
    /\ insert_call' = [insert_call EXCEPT !.pc = "raised", !.conn = "closed",
                                          !.result = -1]
    /\ UNCHANGED <<insert_runs, outsideInsert>>

NextInsert ==
    \/ CallInsertRecipe
    \/ InsertRecipeRow
    \/ InsertIngredientRow
    \/ InsertInstructionRow
    \/ CommitInsert
    \/ ReturnRecipeId
    \/ StatementFails

SpecInsert == InitInsert /\ [][NextInsert]_vars

----------------------------------------------------------------------------
(* Properties.  The expected values are computed with exact decimal         *)
(* arithmetic on the digits of the strings, not with doubles.               *)

IsDecimal(t) ==
    /\ \A i \in 1..Len(t) : IsDigit(t[i]) \/ t[i] = "."
    /\ DotCount(t) <= 1
    /\ DigitCount(t) >= 1

(* the decimal t as the fraction a / d *)
DecimalOf(t) ==
    [a |-> DigitsToInt(t, 0),
     d |-> Pow10(IF DotCount(t) = 1
                 THEN Len(t) - (CHOOSE i \in 1..Len(t) : t[i] = ".") ELSE 0)]

(* the number a quantity string stands for: the whole string, or a leading  *)
(* run of digits and points that is a number, with the text after it        *)
Extracted(q) ==
    LET n == NumRunLen(q)
    IN IF IsDecimal(Strip(q))
       THEN [ok |-> TRUE, num |-> DecimalOf(Strip(q)), r |-> <<>>]
       ELSE IF n > 0 /\ IsDecimal(SubSeq(q, 1, n))
       THEN [ok |-> TRUE, num |-> DecimalOf(SubSeq(q, 1, n)),
             r |-> Strip(SubSeq(q, n + 1, Len(q)))]
       ELSE [ok |-> FALSE, num |-> [a |-> 0, d |-> 1], r |-> <<>>]

Abs(x) == IF x < 0 THEN 0 - x ELSE x

(* str is a / d by the integer / one-decimal rule: the integer when a / d   *)
(* is whole, else digits, a point and one digit, nearest to a / d           *)
WrittenAs(str, a, d) ==
    IF a % d = 0 THEN str = IntToStr(a \div d)
    ELSE \E t \in {(10 * a) \div d, (10 * a) \div d + 1} :
            /\ str = IntToStr(t \div 10) \o <<".">> \o <<Digits[(t % 10) + 1]>>
            /\ 2 * Abs(t * d - 10 * a) <= d

(* str is a / d by that rule, then a blank and r when r is not empty *)
WrittenWithRemainder(str, a, d, r) ==
    IF r = <<>> THEN WrittenAs(str, a, d)
    ELSE /\ EndsWith(str, <<" ">> \o r)
         /\ WrittenAs(SubSeq(str, 1, Len(str) - Len(r) - 1), a, d)

(* C4: a fraction quantity "1/2" is returned verbatim by _scale_quantity    *)
(* for every factor.                                                        *)
C4_FractionVerbatim ==
    (pc = "done" /\ quantity = Q_half) => scaled = Q_half

(* C5: _scale_quantity never raises: for every quantity string and factor   *)
(* it returns a string.                                                     *)
C5_ScaleNeverRaises ==
    pc = "done" => scaled # ValueError

(* C9: _scale_quantity(q, 1.0) returns q unchanged for every string q, and  *)
(* _scale_quantity("", f) returns "" for every factor f.                    *)
C9_NoOpScaling ==
    (pc = "done" /\ (scale_factor = FOne \/ quantity = <<>>)) => scaled = quantity

C9_Witness ==
    /\ pc = "done" /\ scale_factor = FOne /\ target_servings = 3
    /\ quantity = Q_1_2_3 /\ scaled = quantity

(* a quantity with no leading digit from which no number is extracted *)
NoNumber(q) == ~Extracted(q).ok /\ (q = <<>> \/ ~IsDigit(q[1]))

(* C11: for a quantity string from which no number can be extracted (no     *)
(* leading digit run) and every factor, _scale_quantity returns the string  *)
(* unchanged.                                                               *)
C11_NonNumericUnchanged ==
    (pc = "done" /\ NoNumber(quantity)) => scaled = quantity

(* C10: when a number n is extracted from the quantity and the factor f is  *)
(* not 1.0, the result is n * f as an integer when n * f is whole and with  *)
(* one decimal digit otherwise, then a blank and the trimmed remainder when *)
(* there is one.                                                            *)
C10_ScaledNumber ==
    (pc = "done" /\ Extracted(quantity).ok /\ target_servings # servings)
    => WrittenWithRemainder(scaled,
                            Extracted(quantity).num.a * target_servings,
                            Extracted(quantity).num.d * servings,
                            Extracted(quantity).r)

(* the scaled quantity string of line i of the group, as _sum_quantities    *)
(* obtains it                                                               *)
ScaledLine(i) == _scale_quantity(items[i].quantity, items[i].scale_factor)

YieldsNumber(str) == str # ValueError /\ Extracted(str).ok

(* the numbers of the lines i..Len(items), summed, in thousandths *)
RECURSIVE SumThousandths(_)
SumThousandths(i) ==
    IF i > Len(items) THEN 0
    ELSE LET n == Extracted(ScaledLine(i)).num
         IN n.a * (1000 \div n.d) + SumThousandths(i + 1)

(* the remainder of the first line that has one *)
FirstRemainder ==
    IF \E i \in 1..Len(items) : Extracted(ScaledLine(i)).r # <<>>
    THEN Extracted(ScaledLine(
             CHOOSE i \in 1..Len(items) :
                /\ Extracted(ScaledLine(i)).r # <<>>
                /\ \A j \in 1..(i - 1) : Extracted(ScaledLine(j)).r = <<>>)).r
    ELSE <<>>

(* C1: when every line of a group of more than one line yields a number,    *)
(* the consolidated quantity is the sum of those numbers by the integer /   *)
(* one-decimal rule, followed by the remainder of the first line that has   *)
(* a non-empty remainder.                                                   *)
C1_SumOfNumbers ==
    (pc = "done" /\ Len(items) > 1
        /\ \A i \in 1..Len(items) : YieldsNumber(ScaledLine(i)))
    => WrittenWithRemainder(total_quantity, SumThousandths(1), 1000, FirstRemainder)

(* C2: when any line of a group of more than one line fails to parse        *)
(* numerically, the consolidated quantity is the first line's scaled        *)
(* quantity string followed by " (multiple recipes)".                       *)
C2_FirstQuantityFlagged ==
    (pc = "done" /\ Len(items) > 1
        /\ \E i \in 1..Len(items) : ~YieldsNumber(ScaledLine(i)))
    => total_quantity = ScaledLine(1) \o MultipleRecipes

----------------------------------------------------------------------------
(* Properties of the aggregated structure, stated on the ingredient lines   *)
(* of the recipes the call names.                                           *)

(* the lines of the stored recipes among ids, in encounter order, each with *)
(* the category it is filed under and its lower-cased (name_en, unit)       *)
RECURSIVE LinesOf(_)
LinesOf(ids) ==
    IF ids = <<>> THEN <<>>
    ELSE (IF \E r \in db : r.id = Head(ids)
          THEN LET r == CHOOSE x \in db : x.id = Head(ids)
               IN [i \in 1..Len(r.ingredients) |->
                     [category |-> IF r.ingredients[i].category \in {None, <<>>}
                                   THEN Other ELSE r.ingredients[i].category,
                      key      |-> <<StrLower(r.ingredients[i].name_en),
                                     StrLower(r.ingredients[i].unit)>>,
                      quantity |-> r.ingredients[i].quantity,
                      title    |-> r.title_en]]
          ELSE <<>>)
         \o LinesOf(Tail(ids))

(* the lines of one bucket, in encounter order *)
Bucket(lines, b) ==
    SelectSeq(lines, LAMBDA l : l.category = b[1] /\ l.key = b[2])

Buckets(lines) == {<<lines[i].category, lines[i].key>> : i \in 1..Len(lines)}

Returned == pc = "done" /\ shopping_list # Raised

EntryKey(e) == <<StrLower(e.name_en), StrLower(e.unit)>>

(* the consolidated entries of a returned structure, each with its category *)
EntriesOf(structure) ==
    UNION {{[category |-> structure[k].category, k |-> k, i |-> i,
             entry |-> structure[k].items[i]] : i \in 1..Len(structure[k].items)} :
           k \in 1..Len(structure)}

(* the entries a structure holds for a bucket *)
EntriesFor(structure, b) ==
    {x \in EntriesOf(structure) : x.category = b[1] /\ EntryKey(x.entry) = b[2]}

Titles(lines) == [i \in 1..Len(lines) |-> lines[i].title]

(* C3: a bucket of more than one line with a line whose quantity has no     *)
(* numeric value gives exactly one entry, whose quantity ends with          *)
(* " (multiple recipes)" and whose recipes hold every contributing title.   *)
C3_IrreconcilableFlagged ==
    pc = "done" =>
      LET lines == LinesOf(recipe_ids)
      IN \A b \in Buckets(lines) :
           LET bucket == Bucket(lines, b)
           IN (/\ Len(bucket) > 1
               /\ \E i \in 1..Len(bucket) : ~Extracted(bucket[i].quantity).ok)
              => /\ shopping_list # Raised
                 /\ Cardinality(EntriesFor(shopping_list, b)) = 1
                 /\ \A x \in EntriesFor(shopping_list, b) :
                       /\ EndsWith(x.entry.quantity, MultipleRecipes)
                       /\ \A i \in 1..Len(bucket) :
                             \E j \in 1..Len(x.entry.recipes) :
                                x.entry.recipes[j] = bucket[i].title

(* C6 as stated: two lines with equal GroupKey are merged into exactly one  *)
(* consolidated entry of the resulting structure.                           *)
C6_EqualKeyOneEntry ==
    Returned =>
      LET lines == LinesOf(recipe_ids)
          entries == EntriesOf(shopping_list)
      IN \A i \in 1..Len(lines) :
            Cardinality({x \in entries : EntryKey(x.entry) = lines[i].key}) = 1

(* C6 as amended: in every structure aggregation returns, the lines that    *)
(* have equal GroupKey and are filed under the same category are merged     *)
(* into exactly one consolidated entry, which counts each of them.          *)
C6_EqualKeySameCategoryOneEntry ==
    Returned =>
      LET lines == LinesOf(recipe_ids)
      IN \A b \in Buckets(lines) :
            /\ Cardinality(EntriesFor(shopping_list, b)) = 1
            /\ \A x \in EntriesFor(shopping_list, b) :
                  Len(x.entry.recipes) = Len(Bucket(lines, b))

C6_Witness ==
    /\ Returned
    /\ LET lines == LinesOf(recipe_ids)
       IN /\ \E b \in Buckets(lines) :
                /\ Len(Bucket(lines, b)) > 1
                /\ \E x \in EntriesFor(shopping_list, b) :
                      \E i, j \in 1..Len(x.entry.recipes) :
                         x.entry.recipes[i] # x.entry.recipes[j]
          /\ \E i, j \in 1..Len(lines) :
                lines[i].key = lines[j].key /\ lines[i].category # lines[j].category

(* C7: lines with different GroupKeys never merge: every consolidated entry *)
(* is built from exactly the lines of its category that share its key, so   *)
(* a category holds as many entries as its lines have distinct keys.        *)
C7_DifferentKeysNeverMerge ==
    Returned =>
      LET lines == LinesOf(recipe_ids)
      IN /\ \A x \in EntriesOf(shopping_list) :
               x.entry.recipes
                 = Titles(Bucket(lines, <<x.category, EntryKey(x.entry)>>))
         /\ \A k \in 1..Len(shopping_list) :
               Len(shopping_list[k].items)
                 = Cardinality({b \in Buckets(lines) :
                                   b[1] = shopping_list[k].category})

C7_Witness ==
    /\ Returned
    /\ \E x, y \in EntriesOf(shopping_list) :
          /\ x.category = y.category
          /\ EntryKey(x.entry)[1] = EntryKey(y.entry)[1]
          /\ EntryKey(x.entry)[2] # EntryKey(y.entry)[2]
    /\ \E x, y \in EntriesOf(shopping_list) :
          /\ x.category = y.category
          /\ EntryKey(x.entry)[1] = N_egg /\ EntryKey(y.entry)[1] = N_eggs

(* the orders of a list *)
OrdersOf(s) ==
    {[i \in 1..Len(s) |-> s[f[i]]] :
        f \in {g \in [1..Len(s) -> 1..Len(s)] :
                  \A i, j \in 1..Len(s) : g[i] = g[j] => i = j}}

(* the categories of a structure and, for each, its entries by name_en,     *)
(* unit and number of recipes                                               *)
Identity(structure) ==
    IF structure = Raised THEN {<<"ValueError">>}
    ELSE {<<x.category, x.entry.name_en, x.entry.unit, Len(x.entry.recipes)>> :
             x \in EntriesOf(structure)}

(* the same, with name_en and unit in lower case *)
KeyIdentity(structure) ==
    {<<x.category, EntryKey(x.entry), Len(x.entry.recipes)>> :
        x \in EntriesOf(structure)}

----------------------------------------------------------------------------
(* Order of the entries and of the categories.                              *)

(* the place in encounter order of the first line of a bucket *)
FirstIndex(lines, b) ==
    CHOOSE i \in 1..Len(lines) :
       /\ lines[i].category = b[1] /\ lines[i].key = b[2]
       /\ \A j \in 1..(i - 1) : ~(lines[j].category = b[1] /\ lines[j].key = b[2])

(* C12 as stated: in every structure aggregation produces, the entries of   *)
(* each category are strictly ascending by name_en: no two adjacent entries *)
(* have equal or descending name_en.                                        *)
C12_StrictlyAscending ==
    Returned =>
      \A k \in 1..Len(shopping_list) :
         \A i \in 1..(Len(shopping_list[k].items) - 1) :
            StrLess(shopping_list[k].items[i].name_en,
                    shopping_list[k].items[i + 1].name_en)

(* C12 as amended: the entries of each category are ascending by name_en,   *)
(* never descending; adjacent entries may have equal name_en, and then      *)
(* their lower-cased units differ and they stand in the order in which      *)
(* their buckets were first met.                                            *)
C12_NeverDescending ==
    Returned =>
      LET lines == LinesOf(recipe_ids)
      IN \A k \in 1..Len(shopping_list) :
            \A i \in 1..(Len(shopping_list[k].items) - 1) :
               LET x == shopping_list[k].items[i]
                   y == shopping_list[k].items[i + 1]
                   c == shopping_list[k].category
               IN /\ ~StrLess(y.name_en, x.name_en)
                  /\ x.name_en = y.name_en =>
                        /\ StrLower(x.unit) # StrLower(y.unit)
                        /\ FirstIndex(lines, <<c, EntryKey(x)>>)
                              < FirstIndex(lines, <<c, EntryKey(y)>>)

C12_Witness ==
    /\ Returned
    /\ LET lines == LinesOf(recipe_ids)
       IN \E k \in 1..Len(shopping_list) :
             LET its == shopping_list[k].items
                 c == shopping_list[k].category
             IN /\ \E i \in 1..(Len(its) - 1) : its[i].name_en = its[i + 1].name_en
                /\ \E i \in 1..(Len(its) - 1) :
                      /\ StrLess(its[i].name_en, its[i + 1].name_en)
                      /\ FirstIndex(lines, <<c, EntryKey(its[i + 1])>>)
                            < FirstIndex(lines, <<c, EntryKey(its[i])>>)

(* the category names of a structure in the order the dict holds them *)
KeysOf(structure) == [k \in 1..Len(structure) |-> structure[k].category]

(* C13: get_categories returns every category that has at least one entry,  *)
(* each once, strictly ascending by name, whatever the order in which the   *)
(* categories were first met.                                               *)
C13_CategoriesSorted ==
    pc = "categories" =>
      /\ \A i \in 1..(Len(categories) - 1) : StrLess(categories[i], categories[i + 1])
      /\ {categories[i] : i \in 1..Len(categories)}
            = {x.category : x \in EntriesOf(shopping_list)}
      /\ {categories[i] : i \in 1..Len(categories)}
            = {l.category : l \in {LinesOf(recipe_ids)[i] :
                                      i \in 1..Len(LinesOf(recipe_ids))}}
      /\ \A ids \in OrdersOf(recipe_ids) :
            LET other == generate_from_recipe_ids(ids, scale_servings)
            IN other # Raised => get_categories(other) = categories

C13_Witness ==
    /\ pc = "categories"
    /\ Len(categories) >= 3
    /\ categories # KeysOf(shopping_list)
    /\ \E ids \in OrdersOf(recipe_ids) :
          LET other == generate_from_recipe_ids(ids, scale_servings)
          IN other # Raised /\ KeysOf(other) # KeysOf(shopping_list)

----------------------------------------------------------------------------
(* Categories of the lines.                                                 *)

(* the ingredients of the stored recipes among ids as stored, in encounter  *)
(* order, each with the title of its recipe                                 *)
RECURSIVE StoredLines(_)
StoredLines(ids) ==
    IF ids = <<>> THEN <<>>
    ELSE (IF \E r \in db : r.id = Head(ids)
          THEN LET r == CHOOSE x \in db : x.id = Head(ids)
               IN [i \in 1..Len(r.ingredients) |->
                     [ing |-> r.ingredients[i], title |-> r.title_en]]
          ELSE <<>>)
         \o StoredLines(Tail(ids))

(* the lines with the name and unit of l, up to letter case, whose category *)
(* is null or "Other"                                                       *)
NullOrOtherLike(stored, l) ==
    SelectSeq(stored,
              LAMBDA m : /\ m.ing.category \in {None, Other}
                         /\ StrLower(m.ing.name_en) = StrLower(l.ing.name_en)
                         /\ StrLower(m.ing.unit) = StrLower(l.ing.unit))

(* C14: every ingredient whose category is null appears in the result under *)
(* "Other", in one entry together with the lines of the same name and unit  *)
(* whose category is null or literally "Other".                             *)
C14_NullCategoryIsOther ==
    Returned =>
      LET stored == StoredLines(recipe_ids)
      IN /\ \A x \in EntriesOf(shopping_list) : x.category # None
         /\ \A n \in 1..Len(stored) :
               stored[n].ing.category = None =>
                 LET found == {x \in EntriesOf(shopping_list) :
                                 /\ x.category = Other
                                 /\ EntryKey(x.entry)
                                      = <<StrLower(stored[n].ing.name_en),
                                          StrLower(stored[n].ing.unit)>>}
                 IN /\ Cardinality(found) = 1
                    /\ \A x \in found :
                          x.entry.recipes
                            = [j \in 1..Len(NullOrOtherLike(stored, stored[n])) |->
                                 NullOrOtherLike(stored, stored[n])[j].title]

C14_Witness ==
    /\ Returned
    /\ \E n, o \in 1..Len(StoredLines(recipe_ids)) :
          /\ StoredLines(recipe_ids)[n].ing.category = None
          /\ StoredLines(recipe_ids)[o].ing.category = Other
          /\ StoredLines(recipe_ids)[n].ing.name_en = StoredLines(recipe_ids)[o].ing.name_en
    /\ \E x \in EntriesOf(shopping_list) :
          x.category = Other /\ Len(x.entry.recipes) >= 2

----------------------------------------------------------------------------
(* Empty inputs.                                                            *)

(* a stored recipe without ingredients *)
NoIngredients(id) == \E r \in db : r.id = id /\ r.ingredients = <<>>

(* C15: aggregating an empty recipe list returns a structure with no        *)
(* category and does not raise; a recipe without ingredients contributes    *)
(* no category and no entry to an aggregation it takes part in.             *)
C15_EmptyContributesNothing ==
    pc = "done" =>
      /\ _aggregate_ingredients(<<>>, scale_servings) = <<>>
      /\ LoadRecipes(recipe_ids) = <<>> => shopping_list = <<>>
      /\ (\A i \in 1..Len(recipe_ids) :
              ~Stored(recipe_ids[i]) \/ NoIngredients(recipe_ids[i]))
            => shopping_list = <<>>
      /\ shopping_list
            = generate_from_recipe_ids(
                  SelectSeq(recipe_ids, LAMBDA id : ~NoIngredients(id)), scale_servings)
      /\ Returned =>
            \A x \in EntriesOf(shopping_list) :
               \A j \in 1..Len(x.entry.recipes) :
                  \A r \in db : r.ingredients = <<>> => x.entry.recipes[j] # r.title_en

C15_Witness ==
    /\ Returned
    /\ \E i \in 1..Len(recipe_ids) : NoIngredients(recipe_ids[i])
    /\ shopping_list # <<>>

----------------------------------------------------------------------------
(* Provenance.                                                              *)

(* the category a stored line is filed under *)
FiledUnder(l) == IF l.ing.category \in {None, <<>>} THEN Other ELSE l.ing.category

(* C16: the recipes list of every entry holds the titles of its lines in    *)
(* encounter order: in the order of the input recipes and, within a recipe, *)
(* of its ingredients; sorting the entries by name does not reorder it.     *)
C16_RecipesInEncounterOrder ==
    Returned =>
      \A x \in EntriesOf(shopping_list) :
         LET mine == SelectSeq(StoredLines(recipe_ids),
                               LAMBDA l : /\ FiledUnder(l) = x.category
                                          /\ StrLower(l.ing.name_en)
                                               = StrLower(x.entry.name_en)
                                          /\ StrLower(l.ing.unit)
                                               = StrLower(x.entry.unit))
         IN /\ Len(x.entry.recipes) = Len(mine)
            /\ \A j \in 1..Len(mine) : x.entry.recipes[j] = mine[j].title

C16_Witness ==
    /\ Returned
    /\ recipe_ids = <<2, 1>>
    /\ \E x \in EntriesOf(shopping_list) : x.entry.recipes = <<"B", "A">>
    /\ \E k \in 1..Len(shopping_list) :
          \E i \in 1..(Len(shopping_list[k].items) - 1) :
             /\ shopping_list[k].items[i].recipes = <<"A">>
             /\ shopping_list[k].items[i + 1].recipes[1] = "B"

----------------------------------------------------------------------------
(* Scale overrides.                                                         *)

(* the stored recipes among the input ids *)
InputRecipes == {r \in db : \E i \in 1..Len(recipe_ids) : recipe_ids[i] = r.id}

(* the servings recipe r is scaled to *)
TargetOf(r) == IF r.id \in DOMAIN scale_servings THEN scale_servings[r.id] ELSE r.servings

(* no override is for an input recipe with a target other than its servings *)
OverridesIdle == \A r \in InputRecipes : TargetOf(r) = r.servings

(* the entry is built only from lines of recipes that have no override *)
FromOthers(entry) ==
    \A j \in 1..Len(entry.recipes) :
       \A r \in InputRecipes :
          r.title_en = entry.recipes[j] => r.id \notin DOMAIN scale_servings

(* the quantity of an entry of one line of recipe r is the line's quantity  *)
(* scaled by TargetOf(r) / r.servings                                       *)
ScaledFor(entry, r, q) ==
    IF TargetOf(r) = r.servings THEN entry.quantity = q
    ELSE IF Extracted(q).ok
    THEN WrittenWithRemainder(entry.quantity, Extracted(q).num.a * TargetOf(r),
                              Extracted(q).num.d * r.servings, Extracted(q).r)
    ELSE NumRunLen(q) = 0 => entry.quantity = q

----------------------------------------------------------------------------
(* The views and the external consolidation.                                *)

(* C18: get_items_by_category returns an empty sequence, and no error, for  *)
(* every category absent from the structure (and the stored entries for a   *)
(* present one), and neither it nor get_categories changes the categories   *)
(* or the entries of the structure.                                         *)
C18_ViewsReadOnly ==
    /\ pc = "items" =>
         /\ (\A k \in 1..Len(shopping_list) : shopping_list[k].category # category)
               => category_items = <<>>
         /\ \A k \in 1..Len(shopping_list) :
               shopping_list[k].category = category
                 => category_items = shopping_list[k].items
    /\ pc \in {"categories", "items"} =>
         shopping_list = generate_from_recipe_ids(recipe_ids, scale_servings)

C18_Witness ==
    /\ pc = "items" /\ shopping_list # <<>>
    /\ category = C_meat /\ category_items = <<>>
    /\ \A k \in 1..Len(shopping_list) : shopping_list[k].category # C_meat

(* C19: when the external call fails the failure reaches the caller, when   *)
(* it succeeds the caller gets the text of the response, and either way the *)
(* structure passed in is the one aggregation returned.                     *)
C19_FailureSurfacedListKept ==
    pc = "consolidated" =>
      /\ ~response.ok => consolidated = ApiError
      /\ response.ok => consolidated = response.text
      /\ shopping_list = generate_from_recipe_ids(recipe_ids, scale_servings)
      /\ list_text = _format_shopping_list_for_llm(
                        generate_from_recipe_ids(recipe_ids, scale_servings))

C19_Witness ==
    /\ pc = "consolidated" /\ ~response.ok /\ consolidated = ApiError
    /\ shopping_list # <<>> /\ list_text # <<>>

----------------------------------------------------------------------------
(* Calls in flight at once.                                                 *)

(* C20: two calls of _aggregate_ingredients running at once, each with its  *)
(* own recipes, return in every interleaving what each returns when it runs *)
(* alone.                                                                   *)
C20_ConcurrentCallsIndependent ==
    \A p \in Callers :
       (pc = "concurrent" /\ calls[p].pc = "done")
         => calls[p].result
              = _aggregate_ingredients(calls[p].recipes, calls[p].scale_servings)

(* both calls returned, with different structures, and each of them had     *)
(* appended entries of two recipes                                          *)
C20_Witness ==
    /\ pc = "concurrent"
    /\ \A p \in Callers :
          /\ calls[p].pc = "done"
          /\ Len(calls[p].recipes) = 2
          /\ calls[p].result # Raised /\ calls[p].result # <<>>
    /\ calls[1].result # calls[2].result

----------------------------------------------------------------------------
(* The plain-text rendering.                                                *)

(* the number of text lines the categories before the k-th one take: an    *)
(* empty line, a header and one line per entry each                         *)
RECURSIVE LinesBefore(_, _)
LinesBefore(blocks, k) ==
    IF k <= 1 THEN 0
    ELSE LinesBefore(blocks, k - 1) + 2 + Len(blocks[k - 1])

(* C21: the text lists the categories in get_categories order, each as an   *)
(* empty line and one header line "category:" followed by one bullet line   *)
(* per entry in the category's entry order, made of quantity, unit and      *)
(* name_en; a bullet line ends with " (used in N recipes)" exactly when the *)
(* entry's recipes list has more than one element.                          *)
C21_RenderingShape ==
    pc = "consolidated" =>
      LET cats   == get_categories(shopping_list)
          blocks == [k \in 1..Len(cats) |-> get_items_by_category(shopping_list, cats[k])]
          lines  == IF list_text = <<>> THEN <<>> ELSE StrSplit(list_text, {i \in 1..Len(list_text) : list_text[i] = "\n"})
      IN /\ Len(lines) = LinesBefore(blocks, Len(cats) + 1)
         /\ \A k \in 1..Len(cats) :
               /\ lines[LinesBefore(blocks, k) + 1] = <<>>
               /\ lines[LinesBefore(blocks, k) + 2] = cats[k] \o <<":">>
               /\ \A i \in 1..Len(blocks[k]) :
                     LET line == lines[LinesBefore(blocks, k) + 2 + i]
                         body == <<" ", " ", "U+2022", " ">>
                                 \o Strip(blocks[k][i].quantity \o <<" ">> \o blocks[k][i].unit)
                                 \o <<" ">> \o blocks[k][i].name_en
                     IN /\ SubSeq(line, 1, Len(body)) = body
                        /\ Len(blocks[k][i].recipes) > 1
                             <=> EndsWith(line, <<" ", "r", "e", "c", "i", "p", "e", "s", ")">>)
                        /\ Len(blocks[k][i].recipes) > 1
                             => line = body \o <<" ", "(", "u", "s", "e", "d", " ", "i", "n", " ">>
                                       \o IntToStr(Len(blocks[k][i].recipes))
                                       \o <<" ", "r", "e", "c", "i", "p", "e", "s", ")">>
                        /\ Len(blocks[k][i].recipes) <= 1 => line = body

C21_Witness ==
    /\ pc = "consolidated" /\ Len(shopping_list) >= 2
    /\ \E x \in EntriesOf(shopping_list) : Len(x.entry.recipes) > 1
    /\ \E x \in EntriesOf(shopping_list) : Len(x.entry.recipes) = 1 /\ x.entry.unit = <<>>
    /\ Len(list_text) > 20

----------------------------------------------------------------------------
(* Ids that storage does not return, and the count of the lines.            *)

(* C22: generate_from_recipe_ids leaves out every id that get_recipe does   *)
(* not return: the result is the aggregation of the found recipes in the    *)
(* order of the ids, a missing id raises nothing, and with no id found the  *)
(* result has no category.                                                  *)
C22_MissingIdsIgnored ==
    pc = "done" =>
      LET found   == SelectSeq(recipe_ids, LAMBDA id : \E r \in db : r.id = id)
          recipes == [i \in 1..Len(found) |-> CHOOSE r \in db : r.id = found[i]]
      IN /\ found = <<>> => shopping_list = <<>>
         /\ found # <<>> => shopping_list = _aggregate_ingredients(recipes, scale_servings)
         /\ (\A i \in 1..Len(found) : found[i] \notin DOMAIN scale_servings)
               => shopping_list # Raised

C22_Witness ==
    /\ Returned /\ shopping_list # <<>>
    /\ Len(recipe_ids) = 2
    /\ \E i \in 1..2 : \A r \in db : r.id # recipe_ids[i]

(* C23: in every result the recipes list of an entry has as many elements   *)
(* as its bucket has lines, and the recipes lists of all categories have    *)
(* together as many elements as the input recipes have ingredient lines, a  *)
(* recipe given twice or a line repeated in a recipe counting every time;   *)
(* every title appears once per line of its recipe.                         *)
C23_LinesConserved ==
    Returned =>
      LET lines == StoredLines(recipe_ids)
          slots == UNION {{<<x.k, x.i, j>> : j \in 1..Len(x.entry.recipes)} :
                          x \in EntriesOf(shopping_list)}
      IN /\ Cardinality(slots) = Len(lines)
         /\ \A x \in EntriesOf(shopping_list) :
               Len(x.entry.recipes)
                 = Cardinality({n \in 1..Len(lines) :
                                  /\ FiledUnder(lines[n]) = x.category
                                  /\ StrLower(lines[n].ing.name_en) = StrLower(x.entry.name_en)
                                  /\ StrLower(lines[n].ing.unit) = StrLower(x.entry.unit)})
         /\ \A r \in db :
               Cardinality({t \in slots :
                              shopping_list[t[1]].items[t[2]].recipes[t[3]] = r.title_en})
                 = Cardinality({n \in 1..Len(lines) : lines[n].title = r.title_en})

(* a recipe given twice, and a recipe that repeats a line *)
C23_Witness ==
    /\ Returned
    /\ \/ recipe_ids = <<1, 1>> /\ \E x \in EntriesOf(shopping_list) : x.entry.recipes = <<"A", "A">>
       \/ recipe_ids = <<3>> /\ \E x \in EntriesOf(shopping_list) : x.entry.recipes = <<"C", "C">>

----------------------------------------------------------------------------
(* Extraction into the table recipes.                                       *)

(* the ids of the rows stored for the image *)
RowsOfImage == {k \in 1..Len(recipe_rows) : recipe_rows[k].source_file = image_stem \o Suffix}

(* C24: extract_from_image with save_to_db=True on an image of which no row *)
(* is stored inserts one row per recipe the extractor returns, with         *)
(* recipe_index 0..n-1, and returns their ids in order, whether or not the  *)
(* image name has a page number; a second call with the same result of the  *)
(* extractor inserts no further row.                                        *)
C24_OneRowPerRecipe ==
    (pc = "extract" /\ extract_runs >= 1) =>
      /\ Cardinality(RowsOfImage) = extracted
      /\ \A k \in RowsOfImage :
            recipe_rows[k].recipe_index = Cardinality({j \in RowsOfImage : j < k})
      /\ (extract_runs = 1 /\ expect_multiple) =>
            /\ Len(extract_result) = extracted
            /\ \A j \in 1..Len(extract_result) :
                  /\ extract_result[j] \in RowsOfImage
                  /\ recipe_rows[extract_result[j]].recipe_index = j - 1
      /\ (extract_runs = 1 /\ ~expect_multiple) =>
            /\ ~extract_result.none /\ extract_result.value \in RowsOfImage

----------------------------------------------------------------------------
(* The session of the web UI.                                               *)

(* C25: whenever st.session_state holds a consolidated shopping list, it is *)
(* the list generated for the chosen plan the session holds.                *)
C25_ListIsForChosenPlan ==
    (pc = "ui" /\ session_shopping_list # NoPlan)
      => session_shopping_list = chosen_plan

----------------------------------------------------------------------------
(* Synchronisation with the Drive folder.  The properties of a call of      *)
(* sync_all relate the table before the call (unprimed) to what the call    *)
(* returned, printed and stored (primed).                                   *)

(* a call of sync_all whose listing worked *)
SyncAllStep == sync_runs' = sync_runs + 1 /\ sync_result'.listed

(* the k-th listed file is a supported one that was not skipped as unchanged *)
Attempted(k) == sync_result'.printed[k].line \in {"Synced", "Error syncing"}

(* the download or the extraction of the k-th listed file failed *)
Failed(k) ==
    \/ sync_result'.outcomes[k] = "download fails"
    \/ /\ sync_result'.outcomes[k] = "extraction fails"
       /\ \/ drive_files[k].kind.mimeType = "application/pdf"
          \/ drive_files[k].kind.ext \in {".pdf", ".PDF"}

(* C26: sync_all skips a supported file exactly when table sync_files has a *)
(* row for its id whose last_modified is the file's modifiedTime, whatever  *)
(* the row's sync_status; a failed sync stores a row "error" with that      *)
(* modifiedTime, so the file is skipped, and its row kept, by a later       *)
(* sync_all as long as its modifiedTime is the same.                        *)
C26_SkipsUnchangedWhateverStatus ==
    [][SyncAllStep =>
         /\ Len(sync_result'.printed) = Len(drive_files)
         /\ \A k \in 1..Len(drive_files) :
               (drive_files[k].kind.mimeType # "text/plain") =>
                 /\ (sync_result'.printed[k].line = "Skipping unchanged file")
                      <=> (/\ sync_files[drive_files[k].id].exists
                           /\ sync_files[drive_files[k].id].last_modified
                                = drive_files[k].modifiedTime)
                 /\ sync_result'.printed[k].line = "Error syncing" =>
                      /\ sync_files'[drive_files[k].id].sync_status = "error"
                      /\ sync_files'[drive_files[k].id].last_modified
                           = drive_files[k].modifiedTime
                 /\ (/\ sync_files[drive_files[k].id].sync_status = "error"
                     /\ sync_files[drive_files[k].id].last_modified
                          = drive_files[k].modifiedTime) =>
                      /\ sync_result'.printed[k].line = "Skipping unchanged file"
                      /\ sync_files'[drive_files[k].id] = sync_files[drive_files[k].id]
    ]_vars

(* a file whose sync failed was skipped by the next sync_all *)
C26_Witness ==
    /\ pc = "sync" /\ sync_runs = 2 /\ sync_result.listed
    /\ \E k \in 1..Len(drive_files) :
          /\ sync_files[drive_files[k].id].sync_status = "error"
          /\ sync_files[drive_files[k].id].last_modified = drive_files[k].modifiedTime
          /\ sync_result.printed[k].line = "Skipping unchanged file"

(* C27: a row "synced" is written for a file only when its download worked  *)
(* and, for a PDF, the page extraction worked; every failed download or     *)
(* extraction leaves a row "error" with the message, the PDF is gone from   *)
(* images_dir when the extraction failed, and the file is counted under     *)
(* errors.                                                                  *)
C27_SyncedOnlyAfterSuccess ==
    [][SyncAllStep =>
         /\ \A k \in 1..Len(drive_files) :
               /\ (Attempted(k) /\ sync_files'[drive_files[k].id].sync_status = "synced")
                    => ~Failed(k)
               /\ (Attempted(k) /\ Failed(k)) =>
                    /\ sync_files'[drive_files[k].id].sync_status = "error"
                    /\ sync_files'[drive_files[k].id].error_message # ""
                    /\ sync_result'.printed[k].line = "Error syncing"
                    /\ sync_result'.outcomes[k] = "extraction fails"
                         => drive_files[k].id \notin local_files'
               /\ ~Attempted(k) =>
                    sync_files'[drive_files[k].id] = sync_files[drive_files[k].id]
         /\ sync_result'.stats.errors
              = Cardinality({k \in 1..Len(drive_files) : Attempted(k) /\ Failed(k)})
    ]_vars

(* a PDF that had been synced, was changed on Drive and then failed to be   *)
(* split into pages                                                         *)
C27_Witness ==
    /\ pc = "sync" /\ sync_runs = 2 /\ sync_result.listed
    /\ \E k \in 1..Len(drive_files) :
          /\ sync_files[drive_files[k].id].sync_status = "error"
          /\ sync_files[drive_files[k].id].error_message = "Failed to extract PDF pages"
          /\ sync_files[drive_files[k].id].last_modified = 2
          /\ drive_files[k].id \notin local_files
          /\ sync_result.stats.errors >= 1

(* C28: when listing works, new + updated + skipped + errors is the number  *)
(* of files listed, updated counts synced files that had a row and new      *)
(* those that had none; when listing fails every counter is zero.           *)
C28_EveryFileCountedOnce ==
    [][(sync_runs' = sync_runs + 1) =>
         IF sync_result'.listed
         THEN /\ sync_result'.stats.new + sync_result'.stats.updated
                 + sync_result'.stats.skipped + sync_result'.stats.errors
                   = Len(drive_files)
              /\ sync_result'.stats.updated
                   = Cardinality({k \in 1..Len(drive_files) :
                                    /\ sync_result'.printed[k].line = "Synced"
                                    /\ sync_files[drive_files[k].id].exists})
              /\ sync_result'.stats.new
                   = Cardinality({k \in 1..Len(drive_files) :
                                    /\ sync_result'.printed[k].line = "Synced"
                                    /\ ~sync_files[drive_files[k].id].exists})
         ELSE sync_result'.stats = ZeroStats /\ sync_files' = sync_files
    ]_vars

(* one file updated, the other skipped *)
C28_Witness ==
    /\ pc = "sync" /\ sync_result.listed /\ Len(drive_files) = 2
    /\ sync_result.stats.updated = 1 /\ sync_result.stats.skipped = 1
    /\ sync_result.stats.new = 0 /\ sync_result.stats.errors = 0

----------------------------------------------------------------------------
(* The parsed dinner plan against the lines of the response.                *)

(* the lines of the response, each without the blanks around it *)
PlanLines ==
    [k \in 1..Len(ResponseLines(response_text)) |->
        Strip(ResponseLines(response_text)[k])]

(* line is a "REASONING:" header, in whatever case *)
HeaderLine(line) ==
    /\ Len(line) >= 10
    /\ StrUpper(SubSeq(line, 1, 10)) = <<"R", "E", "A", "S", "O", "N", "I", "N", "G", ":">>

(* line has a colon *)
HasColon(line) == \E i \in 1..Len(line) : line[i] = ":"

(* line is a "Day ...:" line whose label is day *)
LabelledLine(line, day) ==
    /\ HasColon(line)
    /\ Len(line) >= 4
    /\ StrLower(SubSeq(line, 1, 4)) = <<"d", "a", "y", " ">>
    /\ DayLabel(line) = day

(* line names the id of an available recipe *)
NamesAvailable(line) ==
    /\ _extract_recipe_id(RecipeText(line)) # NoInt
    /\ \E r \in 1..Len(available) :
          available[r].id = _extract_recipe_id(RecipeText(line)).value

(* dinner comes from line k of lines: the line stands before every header,  *)
(* has the label of the dinner and names its id                             *)
SourceLine(dinner, lines, k) ==
    /\ \A j \in 1..k : ~HeaderLine(lines[j])
    /\ LabelledLine(lines[k], dinner.day)
    /\ _extract_recipe_id(RecipeText(lines[k])) = SomeInt(dinner.recipe_id)

(* C29: every dinner of the parsed plan has the id of an available recipe   *)
(* and that recipe's title_en; every dinner comes from a line before the    *)
(* first "REASONING:" header that names its id, the dinners standing in the *)
(* order of their lines; and a line that names an unknown id or no id gives *)
(* no dinner.                                                               *)
C29_DinnersFromKnownLines ==
    (pc = "parse" /\ dinner_plan.returned) =>
        \E lines \in {PlanLines} :
           /\ \A i \in 1..Len(dinner_plan.dinners) :
                 \E r \in 1..Len(available) :
                    /\ available[r].id = dinner_plan.dinners[i].recipe_id
                    /\ available[r].title_en = dinner_plan.dinners[i].recipe_title
           /\ \A i \in 1..Len(dinner_plan.dinners) :
                 \E k \in 1..Len(lines) : SourceLine(dinner_plan.dinners[i], lines, k)
           /\ \A i, j \in 1..Len(dinner_plan.dinners) :
                 i < j => \E k, l \in 1..Len(lines) :
                             /\ k < l
                             /\ SourceLine(dinner_plan.dinners[i], lines, k)
                             /\ SourceLine(dinner_plan.dinners[j], lines, l)
           /\ \A k \in 1..Len(lines) :
                 (HasColon(lines[k]) /\ ~NamesAvailable(lines[k]))
                 => \A i \in 1..Len(dinner_plan.dinners) :
                       dinner_plan.dinners[i].day # DayLabel(lines[k])

(* a plan of one dinner from a response of three lines: a dinner line, the  *)
(* header, and after it a line that names an available recipe               *)
C29_Witness ==
    /\ pc = "parse" /\ dinner_plan.returned
    /\ Len(dinner_plan.dinners) = 1
    /\ Len(PlanLines) = 3
    /\ HeaderLine(PlanLines[2])
    /\ LabelledLine(PlanLines[3], DayLabel(PlanLines[3]))
    /\ NamesAvailable(PlanLines[3])

----------------------------------------------------------------------------
(* The committed rows during and after a call of insert_recipe.             *)

(* the rows of the recipe of the call: its row of recipes, one row of       *)
(* ingredients for each ingredient and one of instructions for each step    *)
RowsOfCall ==
    [recipes |-> {insert_call.recipe_id},
     ingredients |-> {<<insert_call.recipe_id, k>> : k \in 1..insert_call.ingredients},
     instructions |-> {<<insert_call.recipe_id, k>> : k \in 1..insert_call.instructions}]

(* the rows before the call and those of its recipe *)
WithRowsOfCall ==
    [t \in {"recipes", "ingredients", "instructions"} |->
        insert_call.before[t] \cup RowsOfCall[t]]

(* C30: insert_recipe is atomic.  While the call runs the committed rows    *)
(* are those from before it; once it has committed they are those and all   *)
(* the rows of its recipe together; when a statement failed they are those  *)
(* from before the call, none of its rows being stored; and the connection  *)
(* is closed when the call has returned and when it has raised.             *)
C30_InsertAtomic ==
    pc = "insert" =>
        /\ insert_call.pc \in {"recipe", "ingredients", "instructions", "commit"}
              => stored_rows = insert_call.before
        /\ insert_call.pc \in {"exit", "returned"}
              => \A t \in {"recipes", "ingredients", "instructions"} :
                    stored_rows[t] = WithRowsOfCall[t]
        /\ insert_call.pc = "raised" => stored_rows = insert_call.before
        /\ insert_call.pc \in {"returned", "raised"} => insert_call.conn = "closed"
        /\ insert_call.pc = "returned" => insert_call.result = insert_call.recipe_id

(* the second call failed after its recipe row and an ingredient row, the   *)
(* first one having stored its recipe                                       *)
C30_Witness ==
    /\ pc = "insert" /\ insert_call.pc = "raised" /\ insert_call.conn = "closed"
    /\ insert_call.recipe_id = 2 /\ insert_call.ingredients = 2
    /\ insert_call.done = 1
    /\ stored_rows.recipes = {1}

====
